---- MODULE Spec2Model ----
(***************************************************************************)
(* Character-profile tooling of desktop-companion:                         *)
(*   comprehensive_asset_update.py  archetype classifier, animation merge, *)
(*                                  asset-config synthesis                 *)
(*   scripts/add_asset_generation.py  feature completion (default stubs)   *)
(*   scripts/validate_characters.py  the validator of a profile file      *)
(*   scripts/character_audit.py      coverage statistics of a corpus       *)
(* A profile is a JSON document; JSON values are tagged records so that    *)
(* values of different JSON types can be compared.  Strings are TLA+       *)
(* strings; Len, \o and SubSeq act on them character by character.         *)
(***************************************************************************)
EXTENDS Integers, Sequences, FiniteSets, TLC

VARIABLES
    char_name,   \* JSON value: the char_name argument of the running script
    char_data,   \* JSON map: the profile document (json.load of the file)
    file_path,   \* string: str(file_path) of the profile file
    pc,          \* position of the script: "start", then the last call made
    result,      \* JSON value returned by the last call (JNull before any)
    before,      \* char_data as it was when the last call began
    calls,       \* number of calls made so far
    asset_files, \* set of strings: the paths of the files that exist on disk
    characters   \* JSON map: directory name -> profile, the corpus of the audit

vars == <<char_name, char_data, file_path, pc, result, before, calls,
         asset_files, characters>>

(***************************************************************************)
(* JSON values as Python sees them after json.load                         *)
(***************************************************************************)
JNull == [t |-> "null"]

JBool(b) == [t |-> "bool", v |-> b]

JInt(n) == [t |-> "int", v |-> n]

\* a float carries its decimal literal; the tools only copy floats
JFloat(s) == [t |-> "float", v |-> s]

JStr(s) == [t |-> "str", v |-> s]

JList(q) == [t |-> "list", v |-> q]

JMap(f) == [t |-> "map", v |-> f]

IsMap(x) == x.t = "map"

\* bool(x): None, False, 0, "", [] and {} are falsy
Truthy(x) ==
    CASE x.t = "null"  -> FALSE
      [] x.t = "bool"  -> x.v
      [] x.t = "int"   -> x.v /= 0
      [] x.t = "float" -> x.v \notin {"0.0", "-0.0"}
      [] x.t = "str"   -> Len(x.v) > 0
      [] x.t = "list"  -> Len(x.v) > 0
      [] x.t = "map"   -> DOMAIN x.v /= {}

\* key in d
Has(d, key) == key \in DOMAIN d.v

\* d.get(key, default)
Get(d, key, default) == IF Has(d, key) THEN d.v[key] ELSE default

\* d[key] = value
Put(d, key, value) == JMap((key :> value) @@ d.v)

Digit(n) == SubSeq("0123456789", n + 1, n + 1)

RECURSIVE NatToStr(_)
NatToStr(n) == IF n < 10 THEN Digit(n) ELSE NatToStr(n \div 10) \o Digit(n % 10)

\* f"{x}": str(x) for the scalar values a name or description can hold
PyFormat(x) ==
    CASE x.t = "str"  -> x.v
      [] x.t = "null" -> "None"
      [] x.t = "bool" -> IF x.v THEN "True" ELSE "False"
      [] x.t = "int"  -> IF x.v < 0 THEN "-" \o NatToStr(0 - x.v) ELSE NatToStr(x.v)

\* needle in haystack, for strings
Contains(haystack, needle) ==
    \E i \in 1..(Len(haystack) - Len(needle) + 1) :
        SubSeq(haystack, i, i + Len(needle) - 1) = needle

\* the characters str.lower() changes (ASCII)
LowerOf ==
    [c \in {SubSeq("ABCDEFGHIJKLMNOPQRSTUVWXYZ", i, i) : i \in 1..26} |->
        LET i == CHOOSE j \in 1..26 : SubSeq("ABCDEFGHIJKLMNOPQRSTUVWXYZ", j, j) = c
        IN  SubSeq("abcdefghijklmnopqrstuvwxyz", i, i)]

LowerChar(c) == IF c \in DOMAIN LowerOf THEN LowerOf[c] ELSE c

\* s.lower()
RECURSIVE Lower(_)
Lower(s) ==
    IF Len(s) = 0 THEN ""
    ELSE IF Len(s) = 1 THEN LowerChar(s)
    ELSE Lower(SubSeq(s, 1, Len(s) \div 2))
            \o Lower(SubSeq(s, Len(s) \div 2 + 1, Len(s)))


(***************************************************************************)
(* comprehensive_asset_update.py: determine_character_archetype            *)
(***************************************************************************)
\* falling through a rule cascade without a return
NoMatch == ""

\* faulty variant: the coarse tag returned without the refinement
tsundere_path_rule_coarse(path_str) == "tsundere"

\* the refinement under "tsundere" in the path
tsundere_path_rule(path_str) ==
    IF Contains(path_str, "romance") THEN "romance_tsundere" ELSE "tsundere"

\* faulty variant: a tag that is no key of base_prompts
multiplayer_path_rule_mistagged(path_str) ==
    IF Contains(path_str, "helper") THEN "helper_bot"
    ELSE IF Contains(path_str, "social") THEN "social_bot"
    ELSE IF Contains(path_str, "group") \/ Contains(path_str, "moderator")
         THEN "moderator"
    ELSE IF Contains(path_str, "shy") THEN "shy_companion"
    ELSE "multiplayer"

\* the refinement under "multiplayer" in the path
multiplayer_path_rule(path_str) ==
    IF Contains(path_str, "helper") THEN "helper_bot"
    ELSE IF Contains(path_str, "social") THEN "social_bot"
    ELSE IF Contains(path_str, "group") \/ Contains(path_str, "moderator")
         THEN "group_moderator"
    ELSE IF Contains(path_str, "shy") THEN "shy_companion"
    ELSE "multiplayer"

\* "Check file path for clues": the if/elif cascade over path_str
path_rules(path_str) ==
    IF Contains(path_str, "aria_luna") THEN "aria_luna"
    ELSE IF Contains(path_str, "tsundere") THEN tsundere_path_rule(path_str)
    ELSE IF Contains(path_str, "flirty") THEN
        IF Contains(path_str, "romance") THEN "romance_flirty" ELSE "flirty"
    ELSE IF Contains(path_str, "slow_burn") \/ Contains(path_str, "slowburn") THEN
        IF Contains(path_str, "romance") THEN "romance_slowburn" ELSE "slow_burn"
    ELSE IF Contains(path_str, "supportive") THEN "romance_supportive"
    ELSE IF Contains(path_str, "romance") THEN "romance"
    ELSE IF Contains(path_str, "klippy") THEN "klippy"
    ELSE IF Contains(path_str, "easy") THEN "easy"
    ELSE IF Contains(path_str, "normal") THEN "normal"
    ELSE IF Contains(path_str, "hard") THEN "hard"
    ELSE IF Contains(path_str, "challenge") THEN "challenge"
    ELSE IF Contains(path_str, "specialist") THEN "specialist"
    ELSE IF Contains(path_str, "multiplayer") THEN multiplayer_path_rule(path_str)
    ELSE IF Contains(path_str, "markov") THEN "markov_example"
    ELSE IF Contains(path_str, "llm") THEN "llm_example"
    ELSE IF Contains(path_str, "news") THEN "news_example"
    ELSE NoMatch

\* faulty variant: the last text rule forgotten
text_rules_without_helper(name_desc) ==
    IF Contains(name_desc, "tsundere") THEN "tsundere"
    ELSE IF Contains(name_desc, "flirty") THEN "flirty"
    ELSE IF Contains(name_desc, "shy") THEN "shy_companion"
    ELSE IF Contains(name_desc, "romance") THEN "romance"
    ELSE IF Contains(name_desc, "multiplayer") \/ Contains(name_desc, "social")
         THEN "multiplayer"
    ELSE IF Contains(name_desc, "news") THEN "news_example"
    ELSE NoMatch

\* "Check character name and description": the if/elif cascade over name_desc
text_rules(name_desc) ==
    IF Contains(name_desc, "tsundere") THEN "tsundere"
    ELSE IF Contains(name_desc, "flirty") THEN "flirty"
    ELSE IF Contains(name_desc, "shy") THEN "shy_companion"
    ELSE IF Contains(name_desc, "romance") THEN "romance"
    ELSE IF Contains(name_desc, "multiplayer") \/ Contains(name_desc, "social")
         THEN "multiplayer"
    ELSE IF Contains(name_desc, "news") THEN "news_example"
    ELSE IF Contains(name_desc, "helper") THEN "helper_bot"
    ELSE NoMatch

\* faulty variant: the text rules consulted before the path rules
determine_character_archetype_text_first(name, data, path) ==
    LET path_str  == Lower(path)
        name_desc == Lower(PyFormat(name) \o " "
                           \o PyFormat(Get(data, "description", JStr(""))))
        by_path   == path_rules(path_str)
        by_text   == text_rules(name_desc)
    IN  IF by_text /= NoMatch THEN by_text
        ELSE IF by_path /= NoMatch THEN by_path
        ELSE "default"

determine_character_archetype(name, data, path) ==
    LET path_str  == Lower(path)
        name_desc == Lower(PyFormat(name) \o " "
                           \o PyFormat(Get(data, "description", JStr(""))))
        by_path   == path_rules(path_str)
        by_text   == text_rules(name_desc)
    IN  IF by_path /= NoMatch THEN by_path
        ELSE IF by_text /= NoMatch THEN by_text
        ELSE "default"


(***************************************************************************)
(* comprehensive_asset_update.py: the static registries                    *)
(***************************************************************************)
base_config ==
    JMap([
    generationSettings |-> JMap([
      model |-> JStr("flux1d"),
      artStyle |-> JStr("anime"),
      resolution |-> JMap([
        width |-> JInt(128),
        height |-> JInt(128)]),
      qualitySettings |-> JMap([
        steps |-> JInt(25),
        cfgScale |-> JFloat("7.5"),
        seed |-> JInt(-1),
        sampler |-> JStr("euler_a"),
        scheduler |-> JStr("normal")]),
      animationSettings |-> JMap([
        frameRate |-> JInt(12),
        duration |-> JFloat("2.5"),
        loopType |-> JStr("seamless"),
        optimization |-> JStr("balanced"),
        maxFileSize |-> JInt(450),
        transparencyEnabled |-> JBool(TRUE),
        colorPalette |-> JStr("adaptive")])]),
    assetMetadata |-> JMap([
      version |-> JStr("1.0.0"),
      generatedAt |-> JStr("2024-12-19T12:00:00Z"),
      generatedBy |-> JStr("gif-generator v1.0.0")]),
    backupSettings |-> JMap([
      enabled |-> JBool(TRUE),
      backupPath |-> JStr("backups"),
      maxBackups |-> JInt(5),
      compressBackups |-> JBool(TRUE)])])

base_prompts ==
    JMap([
    default |-> JStr("A friendly anime character with short brown hair and warm brown eyes, cute casual clothing, cheerful and approachable appearance, digital art, transparent background, high quality character design suitable for desktop companion"),
    tsundere |-> JStr("A cute anime girl with twin tails and orange/red hair, bright eyes, school uniform or casual dress, tsundere expression with slight blush, arms crossed or hands on hips, digital art, transparent background, high quality anime character design"),
    romance_tsundere |-> JStr("A beautiful anime girl with flowing hair and expressive eyes, elegant clothing with romantic touches, tsundere personality showing subtle romantic interest, digital art, transparent background, high quality romantic character design"),
    flirty |-> JStr("A charming anime girl with vibrant hair and sparkling eyes, stylish outfit with playful accessories, confident and flirty expression, welcoming pose, digital art, transparent background, high quality character design for romance companion"),
    romance_flirty |-> JStr("A stunning anime girl with flowing colorful hair and bright eyes, fashionable romantic outfit, confident flirty smile and pose, romantic accessories, digital art, transparent background, high quality romantic character design"),
    slow_burn |-> JStr("A gentle anime character with soft features and calm eyes, modest comfortable clothing, thoughtful and reserved expression, peaceful demeanor, digital art, transparent background, high quality character design for slow romance"),
    romance_slowburn |-> JStr("A graceful anime character with elegant features and deep eyes, sophisticated clothing with subtle romantic touches, contemplative and gentle expression, digital art, transparent background, high quality romantic character design"),
    romance_supportive |-> JStr("A warm anime character with kind eyes and soft smile, comfortable caring outfit, supportive and nurturing expression, open welcoming pose, digital art, transparent background, high quality character design for supportive romance"),
    klippy |-> JStr("A stylized anime version of a paperclip character with anthropomorphic features, metallic silver-blue coloring, expressive eyes, slightly sarcastic but helpful expression, digital art, transparent background, unique character design"),
    aria_luna |-> JStr("A beautiful anime girl with long flowing silver hair and bright purple eyes, wearing a flowing celestial robe with star patterns, ethereal and mystical appearance, digital art, transparent background, high quality, detailed character design suitable for desktop companion, magical aura, soft lighting"),
    easy |-> JStr("A sweet anime character with soft features and bright eyes, simple comfortable clothing, happy and easy-going expression, relaxed pose, digital art, transparent background, high quality character design for beginner-friendly companion"),
    normal |-> JStr("A balanced anime character with pleasant features and friendly eyes, normal casual clothing, moderate expression showing contentment, standard pose, digital art, transparent background, high quality character design for balanced experience"),
    hard |-> JStr("A sophisticated anime character with sharp features and intense eyes, formal or complex clothing, demanding or high-maintenance expression, confident pose, digital art, transparent background, high quality character design for challenging experience"),
    challenge |-> JStr("An elite anime character with striking features and piercing eyes, luxurious or complex outfit, proud and challenging expression, commanding pose, digital art, transparent background, high quality character design for expert-level experience"),
    specialist |-> JStr("A sleepy anime character with drowsy features and tired but cute eyes, comfortable pajamas or cozy clothing, sleepy expression with slight smile, relaxed sleepy pose, digital art, transparent background, high quality character design for energy-focused gameplay"),
    romance |-> JStr("A romantic anime character with beautiful features and loving eyes, elegant romantic outfit with soft colors, gentle romantic expression, graceful pose, digital art, transparent background, high quality character design for romance experience"),
    multiplayer |-> JStr("A social anime character with expressive features and bright eyes, casual social outfit with fun accessories, friendly communicative expression, open social pose, digital art, transparent background, high quality character design for multiplayer interaction"),
    markov_example |-> JStr("An intelligent anime character with thoughtful features and curious eyes, smart casual outfit, contemplative expression showing intelligence, digital art, transparent background, high quality character design for AI-powered dialog system"),
    llm_example |-> JStr("A futuristic anime character with tech-savvy features and bright eyes, modern outfit with tech accessories, intelligent expression, digital art, transparent background, high quality character design for LLM integration"),
    news_example |-> JStr("A knowledgeable anime character with sharp features and attentive eyes, professional casual outfit, informed and alert expression, digital art, transparent background, high quality character design for news and information features"),
    helper_bot |-> JStr("A helpful anime character with kind features and bright eyes, assistant-style outfit, eager-to-help expression, supportive pose, digital art, transparent background, high quality character design for helpful multiplayer bot"),
    social_bot |-> JStr("A social anime character with animated features and sparkling eyes, trendy social outfit, chatty and friendly expression, welcoming pose, digital art, transparent background, high quality character design for social multiplayer bot"),
    group_moderator |-> JStr("An organized anime character with confident features and attentive eyes, moderator-style outfit, responsible and coordinating expression, leadership pose, digital art, transparent background, high quality character design for group management bot"),
    shy_companion |-> JStr("A quiet anime character with gentle features and soft eyes, modest comfortable clothing, shy but warm expression, reserved pose, digital art, transparent background, high quality character design for introverted companion")])

standard_mappings ==
    JMap([
    idle |-> JMap([
      promptModifier |-> JStr("standing calmly with arms at sides, peaceful neutral expression, slight smile, relaxed pose"),
      negativePrompt |-> JStr("angry, aggressive, dark, scary, low quality, blurry"),
      stateDescription |-> JStr("Default calm state"),
      frameCount |-> JInt(6)]),
    talking |-> JMap([
      promptModifier |-> JStr("speaking with hand gestures, mouth slightly open, expressive face, animated pose, welcoming expression"),
      negativePrompt |-> JStr("silent, static, angry expression, dark mood"),
      stateDescription |-> JStr("Speaking or interacting with user"),
      frameCount |-> JInt(8)]),
    happy |-> JMap([
      promptModifier |-> JStr("bright cheerful smile, eyes sparkling with joy, hands clasped together or raised, radiant expression"),
      negativePrompt |-> JStr("sad, angry, neutral expression, dark colors"),
      stateDescription |-> JStr("Joyful and excited state"),
      frameCount |-> JInt(6)]),
    sad |-> JMap([
      promptModifier |-> JStr("downcast eyes, gentle frown, hand touching cheek or covering face, melancholic but still beautiful"),
      negativePrompt |-> JStr("happy, cheerful, bright colors, aggressive"),
      stateDescription |-> JStr("Sad or disappointed state"),
      frameCount |-> JInt(4)]),
    hungry |-> JMap([
      promptModifier |-> JStr("looking longingly at food, hand on stomach, slightly droopy expression, cute hungry pose"),
      negativePrompt |-> JStr("full, satisfied, eating, aggressive"),
      stateDescription |-> JStr("Hungry and wanting food"),
      frameCount |-> JInt(5)]),
    eating |-> JMap([
      promptModifier |-> JStr("eating food happily, content expression, food in hands or near mouth, satisfied pose"),
      negativePrompt |-> JStr("hungry, sad, empty hands, aggressive"),
      stateDescription |-> JStr("Eating and satisfied"),
      frameCount |-> JInt(6)]),
    blushing |-> JMap([
      promptModifier |-> JStr("soft pink blush on cheeks, shy smile, one hand near face, averting gaze slightly, cute embarrassed expression"),
      negativePrompt |-> JStr("confident, bold, angry, dark mood"),
      stateDescription |-> JStr("Shy and blushing romantic state"),
      frameCount |-> JInt(5)]),
    heart_eyes |-> JMap([
      promptModifier |-> JStr("heart-shaped pupils or sparkles in eyes, loving expression, hands near heart, surrounded by floating hearts"),
      negativePrompt |-> JStr("normal eyes, angry, sad, dark mood"),
      stateDescription |-> JStr("In love or adoring state"),
      frameCount |-> JInt(6)]),
    shy |-> JMap([
      promptModifier |-> JStr("looking down shyly, hands clasped behind back or in front, timid expression, cute shy pose"),
      negativePrompt |-> JStr("confident, bold, outgoing, aggressive"),
      stateDescription |-> JStr("Timid and shy state"),
      frameCount |-> JInt(4)]),
    flirty |-> JMap([
      promptModifier |-> JStr("playful wink or flirty smile, confident pose, one hand on hip or touching hair, charming expression"),
      negativePrompt |-> JStr("shy, timid, serious, angry"),
      stateDescription |-> JStr("Flirty and charming state"),
      frameCount |-> JInt(7)]),
    romantic_idle |-> JMap([
      promptModifier |-> JStr("gentle romantic expression, soft smile, dreamy eyes, peaceful romantic pose"),
      negativePrompt |-> JStr("aggressive, angry, rushed, unromantic"),
      stateDescription |-> JStr("Peaceful romantic state"),
      frameCount |-> JInt(5)]),
    jealous |-> JMap([
      promptModifier |-> JStr("slightly pouting expression, arms crossed, looking away with subtle jealous expression"),
      negativePrompt |-> JStr("happy, content, peaceful, aggressive"),
      stateDescription |-> JStr("Jealous or envious state"),
      frameCount |-> JInt(4)]),
    excited_romance |-> JMap([
      promptModifier |-> JStr("excited happy expression with romantic sparkles, jumping or energetic pose, love-struck appearance"),
      negativePrompt |-> JStr("calm, sad, angry, static"),
      stateDescription |-> JStr("Excited romantic state"),
      frameCount |-> JInt(8)]),
    magical |-> JMap([
      promptModifier |-> JStr("casting magic spell, hands glowing with celestial energy, intense concentration, robes flowing dramatically, magical circles and symbols"),
      stateDescription |-> JStr("Using magical powers"),
      frameCount |-> JInt(10),
      customSettings |-> JMap([
        qualitySettings |-> JMap([
          steps |-> JInt(30),
          cfgScale |-> JFloat("8.0")])])]),
    sleeping |-> JMap([
      promptModifier |-> JStr("peaceful sleeping pose, eyes closed, serene expression, sitting or reclining position, soft glow"),
      stateDescription |-> JStr("Resting or sleeping state"),
      frameCount |-> JInt(4)]),
    thinking |-> JMap([
      promptModifier |-> JStr("thoughtful expression, hand near chin, contemplative pose, focused look"),
      stateDescription |-> JStr("Thinking or processing information"),
      frameCount |-> JInt(5)]),
    excited |-> JMap([
      promptModifier |-> JStr("energetic bouncing motion, wide smile, enthusiastic pose, dynamic expression"),
      stateDescription |-> JStr("Excited and energetic state"),
      frameCount |-> JInt(8)]),
    reading |-> JMap([
      promptModifier |-> JStr("reading a book or document, focused expression, holding reading material, intellectual pose"),
      stateDescription |-> JStr("Reading or studying information"),
      frameCount |-> JInt(6)]),
    critical |-> JMap([
      promptModifier |-> JStr("stern or disapproving expression, arms crossed, serious demeanor, demanding pose"),
      stateDescription |-> JStr("Critical or demanding state"),
      frameCount |-> JInt(5)]),
    demanding |-> JMap([
      promptModifier |-> JStr("authoritative pose, pointing gesture, expectant expression, commanding presence"),
      stateDescription |-> JStr("Making demands or requests"),
      frameCount |-> JInt(6)]),
    boost |-> JMap([
      promptModifier |-> JStr("energized and motivated expression, fist pump or celebratory pose, boosted confidence"),
      stateDescription |-> JStr("Boosted or energized state"),
      frameCount |-> JInt(7)]),
    comforting |-> JMap([
      promptModifier |-> JStr("gentle caring expression, open arms, nurturing pose, warm and supportive demeanor"),
      stateDescription |-> JStr("Providing comfort and support"),
      frameCount |-> JInt(6)]),
    caring |-> JMap([
      promptModifier |-> JStr("attentive and loving expression, reaching out gesture, caring pose, protective stance"),
      stateDescription |-> JStr("Showing care and concern"),
      frameCount |-> JInt(5)]),
    attack |-> JMap([
      promptModifier |-> JStr("dynamic attack pose, concentrated expression, action stance, power effects"),
      stateDescription |-> JStr("Attacking in battle"),
      frameCount |-> JInt(8)]),
    defend |-> JMap([
      promptModifier |-> JStr("defensive stance, protective pose, focused expression, shield or guard position"),
      stateDescription |-> JStr("Defending in battle"),
      frameCount |-> JInt(6)]),
    heal |-> JMap([
      promptModifier |-> JStr("gentle healing pose, hands glowing with soft light, caring expression, restorative energy"),
      stateDescription |-> JStr("Healing or supporting"),
      frameCount |-> JInt(7)]),
    victory |-> JMap([
      promptModifier |-> JStr("triumphant pose, victory sign or raised fist, celebratory expression, winner stance"),
      stateDescription |-> JStr("Celebrating victory"),
      frameCount |-> JInt(8)]),
    defeat |-> JMap([
      promptModifier |-> JStr("disappointed but graceful expression, hand on heart, accepting pose, respectful demeanor"),
      stateDescription |-> JStr("Accepting defeat gracefully"),
      frameCount |-> JInt(5)]),
    special |-> JMap([
      promptModifier |-> JStr("charging special ability, concentrated energy gathering, dramatic pose, power buildup"),
      stateDescription |-> JStr("Preparing special attack"),
      frameCount |-> JInt(10)])])


(***************************************************************************)
(* comprehensive_asset_update.py: get_comprehensive_asset_config           *)
(***************************************************************************)
\* an exception leaving the call: there is no return value
Raise(exc) == [t |-> "raise", v |-> exc]

Raised(x) == x.t = "raise"

core_animations == <<"idle", "talking", "happy", "sad", "hungry", "eating">>

\* "Create generic mapping for unknown animations"
generic_mapping(anim_name) ==
    JMap([
      promptModifier |-> JStr("expressive pose and animation for " \o anim_name
                              \o " state, character showing " \o anim_name
                              \o " emotion or action"),
      stateDescription |-> JStr("Character in " \o anim_name \o " state"),
      frameCount |-> JInt(6)])

\* faulty variant: the catalog never consulted, every name mapped generically
map_existing_animations_all_generic(existing_animations) ==
    [anim_name \in DOMAIN existing_animations.v |-> generic_mapping(anim_name)]

\* faulty variant: names the catalog lacks are skipped
map_existing_animations_known_only(existing_animations) ==
    [anim_name \in DOMAIN existing_animations.v \cap DOMAIN standard_mappings.v |->
        standard_mappings.v[anim_name]]

\* "Map all existing animations": the loop over existing_animations.keys()
map_existing_animations(existing_animations) ==
    [anim_name \in DOMAIN existing_animations.v |->
        IF Has(standard_mappings, anim_name)
        THEN standard_mappings.v[anim_name]
        ELSE generic_mapping(anim_name)]

\* faulty variant: no core animation is added
ensure_core_animations_skipped(animation_mappings) == animation_mappings

\* "Ensure core animations are present"
ensure_core_animations(animation_mappings) ==
    [anim \in DOMAIN animation_mappings
              \cup {core_animations[i] : i \in DOMAIN core_animations} |->
        IF anim \in DOMAIN animation_mappings
        THEN animation_mappings[anim]
        ELSE standard_mappings.v[anim]]

\* faulty variant: sleeping added for aria_luna only
add_archetype_animations_no_specialist(archetype, animation_mappings) ==
    LET with_magical ==
            IF archetype = "aria_luna" /\ "magical" \notin DOMAIN animation_mappings
            THEN ("magical" :> standard_mappings.v["magical"]) @@ animation_mappings
            ELSE animation_mappings
    IN  IF archetype = "aria_luna" /\ "sleeping" \notin DOMAIN with_magical
        THEN ("sleeping" :> standard_mappings.v["sleeping"]) @@ with_magical
        ELSE with_magical

\* "Character-specific customizations"
add_archetype_animations(archetype, animation_mappings) ==
    LET with_magical ==
            IF archetype = "aria_luna" /\ "magical" \notin DOMAIN animation_mappings
            THEN ("magical" :> standard_mappings.v["magical"]) @@ animation_mappings
            ELSE animation_mappings
    IN  IF archetype \in {"specialist", "aria_luna"}
           /\ "sleeping" \notin DOMAIN with_magical
        THEN ("sleeping" :> standard_mappings.v["sleeping"]) @@ with_magical
        ELSE with_magical

get_comprehensive_asset_config(name, data, path) ==
    LET archetype == determine_character_archetype(name, data, path)
        existing_animations == Get(data, "animations", JMap(<<>>))
    IN  IF ~IsMap(existing_animations)
        THEN Raise("AttributeError")      \* existing_animations.keys()
        ELSE JMap(base_config.v
                  @@ ("basePrompt" :>
                        Get(base_prompts, archetype, base_prompts.v["default"]))
                  @@ ("animationMappings" :>
                        JMap(add_archetype_animations(archetype,
                               ensure_core_animations(
                                 map_existing_animations(existing_animations))))))


(***************************************************************************)
(* scripts/add_asset_generation.py: the static registries                  *)
(***************************************************************************)
stub_base_config ==
    JMap([
    generationSettings |-> JMap([
      model |-> JStr("flux1d"),
      artStyle |-> JStr("anime"),
      resolution |-> JMap([
        width |-> JInt(128),
        height |-> JInt(128)]),
      qualitySettings |-> JMap([
        steps |-> JInt(25),
        cfgScale |-> JFloat("7.5"),
        seed |-> JInt(-1),
        sampler |-> JStr("euler_a"),
        scheduler |-> JStr("normal")]),
      animationSettings |-> JMap([
        frameRate |-> JInt(12),
        duration |-> JFloat("2.5"),
        loopType |-> JStr("seamless"),
        optimization |-> JStr("balanced"),
        maxFileSize |-> JInt(450),
        transparencyEnabled |-> JBool(TRUE),
        colorPalette |-> JStr("adaptive")])]),
    assetMetadata |-> JMap([
      version |-> JStr("1.0.0"),
      generatedAt |-> JStr("2024-12-19T12:00:00Z"),
      generatedBy |-> JStr("gif-generator v1.0.0")]),
    backupSettings |-> JMap([
      enabled |-> JBool(TRUE),
      backupPath |-> JStr("backups"),
      maxBackups |-> JInt(5),
      compressBackups |-> JBool(TRUE)])])

character_configs ==
    JMap([
    default |-> JMap([
      basePrompt |-> JStr("A friendly anime character with short brown hair and warm brown eyes, cute casual clothing, cheerful and approachable appearance, digital art, transparent background, high quality character design suitable for desktop companion"),
      personality_traits |-> JList(<<JStr("friendly"), JStr("cheerful"), JStr("approachable"), JStr("casual")>>)]),
    tsundere |-> JMap([
      basePrompt |-> JStr("A cute anime girl with twin tails and orange/red hair, bright eyes, school uniform or casual dress, tsundere expression with slight blush, arms crossed or hands on hips, digital art, transparent background, high quality anime character design"),
      personality_traits |-> JList(<<JStr("tsundere"), JStr("proud"), JStr("defensive"), JStr("cute")>>)]),
    romance_tsundere |-> JMap([
      basePrompt |-> JStr("A beautiful anime girl with flowing hair and expressive eyes, elegant clothing with romantic touches, tsundere personality showing subtle romantic interest, digital art, transparent background, high quality romantic character design"),
      personality_traits |-> JList(<<JStr("romantic"), JStr("tsundere"), JStr("elegant"), JStr("expressive")>>)]),
    flirty |-> JMap([
      basePrompt |-> JStr("A charming anime girl with vibrant hair and sparkling eyes, stylish outfit with playful accessories, confident and flirty expression, welcoming pose, digital art, transparent background, high quality character design for romance companion"),
      personality_traits |-> JList(<<JStr("flirty"), JStr("confident"), JStr("charming"), JStr("playful")>>)]),
    romance_flirty |-> JMap([
      basePrompt |-> JStr("A stunning anime girl with flowing colorful hair and bright eyes, fashionable romantic outfit, confident flirty smile and pose, romantic accessories, digital art, transparent background, high quality romantic character design"),
      personality_traits |-> JList(<<JStr("romantic"), JStr("flirty"), JStr("confident"), JStr("stunning")>>)]),
    slow_burn |-> JMap([
      basePrompt |-> JStr("A gentle anime character with soft features and calm eyes, modest comfortable clothing, thoughtful and reserved expression, peaceful demeanor, digital art, transparent background, high quality character design for slow romance"),
      personality_traits |-> JList(<<JStr("gentle"), JStr("thoughtful"), JStr("reserved"), JStr("peaceful")>>)]),
    romance_slowburn |-> JMap([
      basePrompt |-> JStr("A graceful anime character with elegant features and deep eyes, sophisticated clothing with subtle romantic touches, contemplative and gentle expression, digital art, transparent background, high quality romantic character design"),
      personality_traits |-> JList(<<JStr("graceful"), JStr("elegant"), JStr("contemplative"), JStr("romantic")>>)]),
    romance_supportive |-> JMap([
      basePrompt |-> JStr("A warm anime character with kind eyes and soft smile, comfortable caring outfit, supportive and nurturing expression, open welcoming pose, digital art, transparent background, high quality character design for supportive romance"),
      personality_traits |-> JList(<<JStr("supportive"), JStr("nurturing"), JStr("kind"), JStr("warm")>>)]),
    klippy |-> JMap([
      basePrompt |-> JStr("A stylized anime version of a paperclip character with anthropomorphic features, metallic silver-blue coloring, expressive eyes, slightly sarcastic but helpful expression, digital art, transparent background, unique character design"),
      personality_traits |-> JList(<<JStr("sarcastic"), JStr("helpful"), JStr("unique"), JStr("metallic")>>)]),
    easy |-> JMap([
      basePrompt |-> JStr("A sweet anime character with soft features and bright eyes, simple comfortable clothing, happy and easy-going expression, relaxed pose, digital art, transparent background, high quality character design for beginner-friendly companion"),
      personality_traits |-> JList(<<JStr("sweet"), JStr("easy-going"), JStr("relaxed"), JStr("simple")>>)]),
    normal |-> JMap([
      basePrompt |-> JStr("A balanced anime character with pleasant features and friendly eyes, normal casual clothing, moderate expression showing contentment, standard pose, digital art, transparent background, high quality character design for balanced experience"),
      personality_traits |-> JList(<<JStr("balanced"), JStr("pleasant"), JStr("moderate"), JStr("content")>>)]),
    hard |-> JMap([
      basePrompt |-> JStr("A sophisticated anime character with sharp features and intense eyes, formal or complex clothing, demanding or high-maintenance expression, confident pose, digital art, transparent background, high quality character design for challenging experience"),
      personality_traits |-> JList(<<JStr("sophisticated"), JStr("demanding"), JStr("intense"), JStr("challenging")>>)]),
    challenge |-> JMap([
      basePrompt |-> JStr("An elite anime character with striking features and piercing eyes, luxurious or complex outfit, proud and challenging expression, commanding pose, digital art, transparent background, high quality character design for expert-level experience"),
      personality_traits |-> JList(<<JStr("elite"), JStr("challenging"), JStr("commanding"), JStr("proud")>>)]),
    specialist |-> JMap([
      basePrompt |-> JStr("A sleepy anime character with drowsy features and tired but cute eyes, comfortable pajamas or cozy clothing, sleepy expression with slight smile, relaxed sleepy pose, digital art, transparent background, high quality character design for energy-focused gameplay"),
      personality_traits |-> JList(<<JStr("sleepy"), JStr("cozy"), JStr("tired"), JStr("cute")>>)]),
    romance |-> JMap([
      basePrompt |-> JStr("A romantic anime character with beautiful features and loving eyes, elegant romantic outfit with soft colors, gentle romantic expression, graceful pose, digital art, transparent background, high quality character design for romance experience"),
      personality_traits |-> JList(<<JStr("romantic"), JStr("beautiful"), JStr("loving"), JStr("elegant")>>)]),
    multiplayer |-> JMap([
      basePrompt |-> JStr("A social anime character with expressive features and bright eyes, casual social outfit with fun accessories, friendly communicative expression, open social pose, digital art, transparent background, high quality character design for multiplayer interaction"),
      personality_traits |-> JList(<<JStr("social"), JStr("communicative"), JStr("friendly"), JStr("expressive")>>)]),
    markov_example |-> JMap([
      basePrompt |-> JStr("An intelligent anime character with thoughtful features and curious eyes, smart casual outfit, contemplative expression showing intelligence, digital art, transparent background, high quality character design for AI-powered dialog system"),
      personality_traits |-> JList(<<JStr("intelligent"), JStr("thoughtful"), JStr("curious"), JStr("analytical")>>)]),
    llm_example |-> JMap([
      basePrompt |-> JStr("A futuristic anime character with tech-savvy features and bright eyes, modern outfit with tech accessories, intelligent expression, digital art, transparent background, high quality character design for LLM integration"),
      personality_traits |-> JList(<<JStr("futuristic"), JStr("tech-savvy"), JStr("intelligent"), JStr("modern")>>)]),
    news_example |-> JMap([
      basePrompt |-> JStr("A knowledgeable anime character with sharp features and attentive eyes, professional casual outfit, informed and alert expression, digital art, transparent background, high quality character design for news and information features"),
      personality_traits |-> JList(<<JStr("knowledgeable"), JStr("professional"), JStr("informed"), JStr("alert")>>)])])

standard_animations ==
    JMap([
    idle |-> JMap([
      promptModifier |-> JStr("standing calmly with arms at sides, peaceful neutral expression, slight smile, relaxed pose"),
      negativePrompt |-> JStr("angry, aggressive, dark, scary, low quality, blurry"),
      stateDescription |-> JStr("Default calm state"),
      frameCount |-> JInt(6)]),
    talking |-> JMap([
      promptModifier |-> JStr("speaking with hand gestures, mouth slightly open, expressive face, animated pose, welcoming expression"),
      negativePrompt |-> JStr("silent, static, angry expression, dark mood"),
      stateDescription |-> JStr("Speaking or interacting with user"),
      frameCount |-> JInt(8)]),
    happy |-> JMap([
      promptModifier |-> JStr("bright cheerful smile, eyes sparkling with joy, hands clasped together or raised, radiant expression"),
      negativePrompt |-> JStr("sad, angry, neutral expression, dark colors"),
      stateDescription |-> JStr("Joyful and excited state"),
      frameCount |-> JInt(6)]),
    sad |-> JMap([
      promptModifier |-> JStr("downcast eyes, gentle frown, hand touching cheek or covering face, melancholic but still beautiful"),
      negativePrompt |-> JStr("happy, cheerful, bright colors, aggressive"),
      stateDescription |-> JStr("Sad or disappointed state"),
      frameCount |-> JInt(4)]),
    hungry |-> JMap([
      promptModifier |-> JStr("looking longingly at food, hand on stomach, slightly droopy expression, cute hungry pose"),
      negativePrompt |-> JStr("full, satisfied, eating, aggressive"),
      stateDescription |-> JStr("Hungry and wanting food"),
      frameCount |-> JInt(5)]),
    eating |-> JMap([
      promptModifier |-> JStr("eating food happily, content expression, food in hands or near mouth, satisfied pose"),
      negativePrompt |-> JStr("hungry, sad, empty hands, aggressive"),
      stateDescription |-> JStr("Eating and satisfied"),
      frameCount |-> JInt(6)]),
    blushing |-> JMap([
      promptModifier |-> JStr("soft pink blush on cheeks, shy smile, one hand near face, averting gaze slightly, cute embarrassed expression"),
      negativePrompt |-> JStr("confident, bold, angry, dark mood"),
      stateDescription |-> JStr("Shy and blushing romantic state"),
      frameCount |-> JInt(5)]),
    heart_eyes |-> JMap([
      promptModifier |-> JStr("heart-shaped pupils or sparkles in eyes, loving expression, hands near heart, surrounded by floating hearts"),
      negativePrompt |-> JStr("normal eyes, angry, sad, dark mood"),
      stateDescription |-> JStr("In love or adoring state"),
      frameCount |-> JInt(6)]),
    shy |-> JMap([
      promptModifier |-> JStr("looking down shyly, hands clasped behind back or in front, timid expression, cute shy pose"),
      negativePrompt |-> JStr("confident, bold, outgoing, aggressive"),
      stateDescription |-> JStr("Timid and shy state"),
      frameCount |-> JInt(4)]),
    flirty |-> JMap([
      promptModifier |-> JStr("playful wink or flirty smile, confident pose, one hand on hip or touching hair, charming expression"),
      negativePrompt |-> JStr("shy, timid, serious, angry"),
      stateDescription |-> JStr("Flirty and charming state"),
      frameCount |-> JInt(7)]),
    romantic_idle |-> JMap([
      promptModifier |-> JStr("gentle romantic expression, soft smile, dreamy eyes, peaceful romantic pose"),
      negativePrompt |-> JStr("aggressive, angry, rushed, unromantic"),
      stateDescription |-> JStr("Peaceful romantic state"),
      frameCount |-> JInt(5)]),
    jealous |-> JMap([
      promptModifier |-> JStr("slightly pouting expression, arms crossed, looking away with subtle jealous expression"),
      negativePrompt |-> JStr("happy, content, peaceful, aggressive"),
      stateDescription |-> JStr("Jealous or envious state"),
      frameCount |-> JInt(4)]),
    excited_romance |-> JMap([
      promptModifier |-> JStr("excited happy expression with romantic sparkles, jumping or energetic pose, love-struck appearance"),
      negativePrompt |-> JStr("calm, sad, angry, static"),
      stateDescription |-> JStr("Excited romantic state"),
      frameCount |-> JInt(8)])])

battle_animations ==
    JMap([
    attack |-> JMap([
      promptModifier |-> JStr("dynamic attack pose, concentrated expression, action stance, power effects"),
      stateDescription |-> JStr("Attacking in battle"),
      frameCount |-> JInt(8)]),
    defend |-> JMap([
      promptModifier |-> JStr("defensive stance, protective pose, focused expression, shield or guard position"),
      stateDescription |-> JStr("Defending in battle"),
      frameCount |-> JInt(6)]),
    heal |-> JMap([
      promptModifier |-> JStr("gentle healing pose, hands glowing with soft light, caring expression, restorative energy"),
      stateDescription |-> JStr("Healing or supporting"),
      frameCount |-> JInt(7)])])

aria_luna_magical ==
    JMap([
    promptModifier |-> JStr("casting magic spell, hands glowing with celestial energy, intense concentration, robes flowing dramatically, magical circles and symbols"),
    stateDescription |-> JStr("Using magical powers"),
    frameCount |-> JInt(10),
    customSettings |-> JMap([
      qualitySettings |-> JMap([
        steps |-> JInt(30),
        cfgScale |-> JFloat("8.0")])])])

aria_luna_sleeping ==
    JMap([
    promptModifier |-> JStr("peaceful sleeping pose, eyes closed, serene expression, sitting or reclining position, soft glow"),
    stateDescription |-> JStr("Resting or sleeping state"),
    frameCount |-> JInt(4)])

specialist_sleeping ==
    JMap([
    promptModifier |-> JStr("very sleepy expression, eyes drooping or closed, yawning, tired but content pose"),
    stateDescription |-> JStr("Sleepy and tired state"),
    frameCount |-> JInt(4)])


(***************************************************************************)
(* scripts/add_asset_generation.py: the default stubs                      *)
(***************************************************************************)
default_randomEvents ==
    JList(<<
    JMap([
      name |-> JStr("spontaneous_moment"),
      description |-> JStr("A delightful spontaneous interaction"),
      probability |-> JFloat("0.05"),
      effects |-> JMap([
        happiness |-> JInt(10),
        affection |-> JInt(5)]),
      animations |-> JList(<<JStr("happy"), JStr("talking")>>),
      responses |-> JList(<<
        JStr("What a lovely surprise! I'm so happy to share this moment with you! \\ud83d\\ude0a"),
        JStr("Life is full of wonderful unexpected moments like this! \\u2728"),
        JStr("These spontaneous times together are what I treasure most! \\ud83d\\udc95")>>),
      cooldown |-> JInt(1800)])>>)

\* faulty variant: the default backend is not one of the configured backends
default_dialogBackend_unconfigured ==
    JMap([
    enabled |-> JBool(TRUE),
    defaultBackend |-> JStr("llm"),
    fallbackChain |-> JList(<<JStr("simple_random")>>),
    confidenceThreshold |-> JFloat("0.6"),
    backends |-> JMap([
      markov_chain |-> JMap([
        chainOrder |-> JInt(2),
        minWords |-> JInt(3),
        maxWords |-> JInt(12),
        temperatureMin |-> JFloat("0.4"),
        temperatureMax |-> JFloat("0.7"),
        usePersonality |-> JBool(TRUE),
        trainingData |-> JList(<<
          JStr("Hello! I'm so happy to see you again!"),
          JStr("How are you doing today? You look wonderful!"),
          JStr("Thanks for visiting me! I love spending time with you."),
          JStr("Your presence always brightens my day!"),
          JStr("What would you like to talk about today?"),
          JStr("I'm here if you need someone to chat with!")>>)])])])

default_dialogBackend ==
    JMap([
    enabled |-> JBool(TRUE),
    defaultBackend |-> JStr("markov_chain"),
    fallbackChain |-> JList(<<JStr("simple_random")>>),
    confidenceThreshold |-> JFloat("0.6"),
    backends |-> JMap([
      markov_chain |-> JMap([
        chainOrder |-> JInt(2),
        minWords |-> JInt(3),
        maxWords |-> JInt(12),
        temperatureMin |-> JFloat("0.4"),
        temperatureMax |-> JFloat("0.7"),
        usePersonality |-> JBool(TRUE),
        trainingData |-> JList(<<
          JStr("Hello! I'm so happy to see you again!"),
          JStr("How are you doing today? You look wonderful!"),
          JStr("Thanks for visiting me! I love spending time with you."),
          JStr("Your presence always brightens my day!"),
          JStr("What would you like to talk about today?"),
          JStr("I'm here if you need someone to chat with!")>>)])])])

default_giftSystem ==
    JMap([
    enabled |-> JBool(TRUE),
    inventorySettings |-> JMap([
      maxSlots |-> JInt(8),
      autoSort |-> JBool(TRUE),
      stackSimilar |-> JBool(TRUE)]),
    preferences |-> JMap([
      favoriteCategories |-> JList(<<JStr("food"), JStr("flowers"), JStr("books")>>),
      personalityModifiers |-> JMap([
        food |-> JFloat("1.3"),
        flowers |-> JFloat("1.5"),
        books |-> JFloat("1.2")])]),
    memorySettings |-> JMap([
      rememberGifts |-> JBool(TRUE),
      trackPreferences |-> JBool(TRUE),
      learningEnabled |-> JBool(TRUE)])])

default_multiplayer(name) ==
    JMap([
    enabled |-> JBool(TRUE),
    botCapable |-> JBool(FALSE),
    networkID |-> JStr(PyFormat(name) \o "_companion_v1"),
    maxPeers |-> JInt(5),
    socialLevel |-> JStr("moderate"),
    networkPersonality |-> JStr("friendly")])

default_newsFeatures ==
    JMap([
    enabled |-> JBool(TRUE),
    updateInterval |-> JInt(1800),
    maxStoredItems |-> JInt(20),
    readingPersonality |-> JStr("casual"),
    preferredCategories |-> JList(<<JStr("general"), JStr("lifestyle")>>),
    feeds |-> JList(<<>>)])

default_battleSystem ==
    JMap([
    enabled |-> JBool(TRUE),
    aiDifficulty |-> JStr("balanced"),
    battleStats |-> JMap([
      hp |-> JMap([
        base |-> JInt(75),
        growth |-> JFloat("2.5")]),
      attack |-> JMap([
        base |-> JInt(12),
        growth |-> JFloat("1.8")]),
      defense |-> JMap([
        base |-> JInt(10),
        growth |-> JFloat("2.0")]),
      speed |-> JMap([
        base |-> JInt(8),
        growth |-> JFloat("1.5")])]),
    availableActions |-> JList(<<JStr("attack"), JStr("defend"), JStr("heal")>>)])

default_generalEvents ==
    JList(<<
    JMap([
      name |-> JStr("friendly_chat"),
      description |-> JStr("A casual conversation moment"),
      responses |-> JList(<<
        JStr("I've been thinking about our friendship today! \\ud83d\\ude0a"),
        JStr("What's been on your mind lately?"),
        JStr("I love our little conversations!")>>),
      choices |-> JList(<<
        JMap([
          text |-> JStr("Share your thoughts"),
          effects |-> JMap([
            happiness |-> JInt(5),
            affection |-> JInt(3)]),
          responses |-> JList(<<
            JStr("Thank you for sharing! I really appreciate that! \\ud83d\\udc95")>>),
          animation |-> JStr("happy")])>>),
      cooldown |-> JInt(3600),
      category |-> JStr("conversation")])>>)

default_progression ==
    JMap([
    levels |-> JList(<<
      JMap([
        name |-> JStr("New Friend"),
        requirement |-> JMap([
          age |-> JInt(0)]),
        size |-> JInt(128)]),
      JMap([
        name |-> JStr("Good Friend"),
        requirement |-> JMap([
          age |-> JInt(86400),
          affection |-> JInt(20)]),
        size |-> JInt(132)]),
      JMap([
        name |-> JStr("Close Friend"),
        requirement |-> JMap([
          age |-> JInt(259200),
          affection |-> JInt(45),
          trust |-> JInt(30)]),
        size |-> JInt(136)])>>)])

default_behavior ==
    JMap([
    idleTimeout |-> JInt(30),
    movementEnabled |-> JBool(TRUE),
    defaultSize |-> JInt(128)])


(***************************************************************************)
(* scripts/add_asset_generation.py: get_character_asset_config             *)
(***************************************************************************)
\* faulty variant: the stub is built once the battleSystem default is in
\* place
get_character_asset_config_after_defaults(name, data) ==
    LET char_config ==
            Get(character_configs, name.v, character_configs.v["default"])
        battleSystem == Get(data, "battleSystem", default_battleSystem)
        with_battle ==
            IF Truthy(Get(battleSystem, "enabled", JBool(FALSE)))
            THEN battle_animations.v @@ standard_animations.v
            ELSE standard_animations.v
        with_character ==
            IF name = JStr("aria_luna")
            THEN ("magical" :> aria_luna_magical)
                 @@ ("sleeping" :> aria_luna_sleeping) @@ with_battle
            ELSE IF name = JStr("specialist")
            THEN ("sleeping" :> specialist_sleeping) @@ with_battle
            ELSE with_battle
    IN  IF ~IsMap(battleSystem)
        THEN Raise("AttributeError")      \* .get on a value that is no dict
        ELSE JMap(stub_base_config.v
                  @@ ("basePrompt" :> char_config.v["basePrompt"])
                  @@ ("animationMappings" :> JMap(with_character)))

get_character_asset_config(name, data) ==
    LET char_config ==
            Get(character_configs, name.v, character_configs.v["default"])
        battleSystem == Get(data, "battleSystem", JMap(<<>>))
        with_battle ==
            IF Truthy(Get(battleSystem, "enabled", JBool(FALSE)))
            THEN battle_animations.v @@ standard_animations.v
            ELSE standard_animations.v
        with_character ==
            IF name = JStr("aria_luna")
            THEN ("magical" :> aria_luna_magical)
                 @@ ("sleeping" :> aria_luna_sleeping) @@ with_battle
            ELSE IF name = JStr("specialist")
            THEN ("sleeping" :> specialist_sleeping) @@ with_battle
            ELSE with_battle
    IN  IF ~IsMap(battleSystem)
        THEN Raise("AttributeError")      \* .get on a value that is no dict
        ELSE JMap(stub_base_config.v
                  @@ ("basePrompt" :> char_config.v["basePrompt"])
                  @@ ("animationMappings" :> JMap(with_character)))

(***************************************************************************)
(* scripts/add_asset_generation.py: add_missing_features_to_character      *)
(***************************************************************************)
\* faulty variant: assetGeneration regenerated on every run
add_asset_generation_regenerating(name, data) ==
    LET asset_config == get_character_asset_config(name, data)
    IN  IF Raised(asset_config) THEN asset_config
        ELSE Put(data, "assetGeneration", asset_config)

\* "If character already has assetGeneration, skip it"
add_asset_generation(name, data) ==
    IF ~Has(data, "assetGeneration")
    THEN LET asset_config == get_character_asset_config(name, data)
         IN  IF Raised(asset_config) THEN asset_config
             ELSE Put(data, "assetGeneration", asset_config)
    ELSE data

\* if key not in char_data or not char_data[key]: char_data[key] = stub
fill_if_missing_or_empty(data, key, stub) ==
    IF ~Has(data, key) \/ ~Truthy(data.v[key]) THEN Put(data, key, stub) ELSE data

\* faulty variant: the stub written without looking at the profile
fill_unconditionally(data, key, stub) == Put(data, key, stub)

\* if key not in char_data: char_data[key] = stub
fill_if_missing(data, key, stub) ==
    IF ~Has(data, key) THEN Put(data, key, stub) ELSE data

add_missing_features_to_character(name, data) ==
    LET d0 == add_asset_generation(name, data)
        d1 == fill_if_missing_or_empty(d0, "randomEvents", default_randomEvents)
        d2 == fill_if_missing(d1, "dialogBackend", default_dialogBackend)
        d3 == fill_if_missing(d2, "giftSystem", default_giftSystem)
        d4 == fill_if_missing(d3, "multiplayer", default_multiplayer(name))
        d5 == fill_if_missing(d4, "newsFeatures", default_newsFeatures)
        d6 == fill_if_missing(d5, "battleSystem", default_battleSystem)
        d7 == fill_if_missing(d6, "generalEvents", default_generalEvents)
        d8 == fill_if_missing(d7, "progression", default_progression)
        d9 == fill_if_missing(d8, "behavior", default_behavior)
    IN  IF Raised(d0) THEN d0 ELSE d9


(***************************************************************************)
(* Bounds and input families                                               *)
(***************************************************************************)
MaxPathParts == 2    \* directory components of a path hint

MaxAnims == 2        \* animation names of a profile

MaxPresent == 2      \* subsystem keys a profile already carries

MaxCalls == 2        \* runs of the completion script over one profile

\* directory names: every keyword of the path rules, one in mixed case, two
\* that match no rule
PathWords ==
    {"aria_luna", "tsundere", "flirty", "slow_burn", "slowburn", "supportive",
     "romance", "klippy", "easy", "normal", "hard", "challenge", "specialist",
     "multiplayer", "helper", "social", "group", "moderator", "shy", "markov",
     "llm", "news", "Romance_Tsundere", "default", "Aria"}

NoHintWords == {"default", "Aria"}

RECURSIVE JoinPath(_)
JoinPath(parts) ==
    IF Len(parts) = 0 THEN "" ELSE "/" \o Head(parts) \o JoinPath(Tail(parts))

PathOf(parts) == "characters" \o JoinPath(parts) \o "/character.json"

Paths == {PathOf(p) : p \in UNION {[1..n -> PathWords] : n \in 1..MaxPathParts}}

NoHintPaths ==
    {PathOf(p) : p \in UNION {[1..n -> NoHintWords] : n \in 1..MaxPathParts}}

Names == {JStr("Aria"), JStr("Newshound"), JNull}

Descriptions ==
    {JStr("a mystical guide"), JStr("A Tsundere classmate"), JStr("FLIRTY and shy"),
     JStr("shy helper"), JStr("Romance novelist"), JStr("Multiplayer host"),
     JStr("social butterfly"), JStr("little helper"), JNull}

animation_file == JStr("animations/anim.gif")

\* the profile a hand-written character.json holds before any tool ran
Profile(description, animations) ==
    JMap([name |-> JStr("Aria"), description |-> description,
          animations |-> animations])

BareProfiles ==
    {JMap([animations |-> JMap([idle |-> animation_file])])}
    \cup {Profile(d, JMap([idle |-> animation_file])) : d \in Descriptions}

\* every path with two texts, every text with the paths that carry no hint
ClassifyInputs ==
    (Paths \X {JStr("Aria")}
           \X {Profile(d, JMap([idle |-> animation_file])) :
                 d \in {JStr("a mystical guide"), JStr("A Tsundere classmate")}})
    \cup (NoHintPaths \X Names \X BareProfiles)

AnimNames ==
    {"idle", "talking", "happy", "sad", "hungry", "eating", "magical",
     "sleeping", "attack", "dance", "Idle", ""}

AnimationSets == {S \in SUBSET AnimNames : Cardinality(S) <= MaxAnims}

MergePaths ==
    {PathOf(<<"default">>), PathOf(<<"aria_luna">>), PathOf(<<"specialist">>),
     PathOf(<<"romance", "Tsundere">>)}

MergeProfiles ==
    {Profile(JStr("a mystical guide"), JMap([a \in S |-> animation_file])) :
        S \in AnimationSets}
    \cup {Profile(JStr("a mystical guide"), x) : x \in {JNull, JList(<<>>)}}
    \cup {JMap([name |-> JStr("Aria")])}

SubsystemKeys ==
    {"assetGeneration", "randomEvents", "dialogBackend", "giftSystem",
     "multiplayer", "newsFeatures", "battleSystem", "generalEvents",
     "progression", "behavior"}

\* what a hand-written profile may hold under a subsystem key
SubsystemValues ==
    {JNull, JStr(""), JList(<<>>), JMap(<<>>),
     JMap([enabled |-> JBool(FALSE), note |-> JStr("hand-written")]),
     JMap([enabled |-> JBool(TRUE), note |-> JStr("hand-written")]),
     JList(<<JStr("hand-written")>>)}

CompleteProfiles ==
    {JMap(f @@ Profile(JStr("a mystical guide"),
                       JMap([idle |-> animation_file])).v) :
        f \in UNION {[S -> SubsystemValues] :
                        S \in {T \in SUBSET SubsystemKeys :
                                 Cardinality(T) <= MaxPresent}}}

CompleteNames == {JStr("aria_luna"), JStr("specialist"), JStr("my_char")}

(***************************************************************************)
(* Initial states                                                          *)
(***************************************************************************)
Fresh ==
    /\ pc = "start"
    /\ result = JNull
    /\ before = JNull
    /\ calls = 0
    /\ characters = JMap(<<>>)
    /\ asset_files = {}

InitClassify ==
    /\ \E input \in ClassifyInputs :
          /\ file_path = input[1]
          /\ char_name = input[2]
          /\ char_data = input[3]
    /\ Fresh

InitMerge ==
    /\ file_path \in MergePaths
    /\ char_data \in MergeProfiles
    /\ char_name = Get(char_data, "name", JStr("character"))
    /\ Fresh

InitComplete ==
    /\ char_name \in CompleteNames
    /\ char_data \in CompleteProfiles
    /\ file_path = "characters/" \o char_name.v \o "/character.json"
    /\ Fresh

(***************************************************************************)
(* Actions                                                                 *)
(***************************************************************************)
\* archetype = determine_character_archetype(char_name, char_data, file_path)
Classify ==
    /\ pc = "start"
    /\ result' = JStr(determine_character_archetype(char_name, char_data, file_path))
    /\ pc' = "classified"
    /\ before' = char_data
    /\ calls' = calls + 1
    /\ UNCHANGED <<char_name, char_data, file_path, asset_files, characters>>

\* new_asset_config = get_comprehensive_asset_config(char_name, char_data, file_path)
Synthesize ==
    /\ pc = "start"
    /\ result' = get_comprehensive_asset_config(char_name, char_data, file_path)
    /\ pc' = IF Raised(result') THEN "raised" ELSE "configured"
    /\ before' = char_data
    /\ calls' = calls + 1
    /\ UNCHANGED <<char_name, char_data, file_path, asset_files, characters>>

\* the merge run again over the names of its own output
Remerge ==
    /\ pc = "configured"
    /\ char_data' = Put(char_data, "animations", result.v["animationMappings"])
    /\ result' = get_comprehensive_asset_config(char_name, char_data', file_path)
    /\ pc' = "remerged"
    /\ before' = char_data
    /\ calls' = calls + 1
    /\ UNCHANGED <<char_name, file_path, asset_files, characters>>

\* updated_data = add_missing_features_to_character(char_name, char_data)
Complete ==
    /\ pc \in {"start", "completed", "updated"}
    /\ calls < MaxCalls
    /\ result' = add_missing_features_to_character(char_name, char_data)
    /\ pc' = IF Raised(result') THEN "raised" ELSE "completed"
    /\ char_data' = IF Raised(result') THEN char_data ELSE result'
    /\ before' = char_data
    /\ calls' = calls + 1
    /\ UNCHANGED <<char_name, file_path, asset_files, characters>>

NextClassify == Classify

NextMerge == Synthesize \/ Remerge

NextComplete == Complete

SpecClassify == InitClassify /\ [][NextClassify]_vars

SpecMerge == InitMerge /\ [][NextMerge]_vars

SpecComplete == InitComplete /\ [][NextComplete]_vars


(***************************************************************************)
(* pathlib: the parts of a path written with "/"                           *)
(***************************************************************************)
\* the last position of the character ch in s, 0 when s has none
LastIndex(s, ch) ==
    LET at == {i \in 1..Len(s) : SubSeq(s, i, i) = ch}
    IN  IF at = {} THEN 0 ELSE CHOOSE i \in at : \A j \in at : j <= i

\* Path(path).name
PathName(path) == SubSeq(path, LastIndex(path, "/") + 1, Len(path))

\* Path(path).parent, as a string
PathParent(path) ==
    IF LastIndex(path, "/") = 0 THEN "."
    ELSE SubSeq(path, 1, LastIndex(path, "/") - 1)

\* Path(path).suffix: from the last dot of the name, a leading dot excepted
PathSuffix(path) ==
    LET name == PathName(path)
        dot == LastIndex(name, ".")
    IN  IF dot <= 1 THEN "" ELSE SubSeq(name, dot, Len(name))

\* Path(path).stem
PathStem(path) ==
    LET name == PathName(path)
    IN  SubSeq(name, 1, Len(name) - Len(PathSuffix(path)))

\* type(x).__name__
PyTypeName(x) ==
    CASE x.t = "null" -> "NoneType"
      [] x.t = "bool" -> "bool"
      [] x.t = "int" -> "int"
      [] x.t = "float" -> "float"
      [] x.t = "str" -> "str"
      [] x.t = "list" -> "list"
      [] x.t = "map" -> "dict"

(***************************************************************************)
(* comprehensive_asset_update.py: the update of one profile file           *)
(***************************************************************************)
\* faulty variant: the configuration is synthesized without the profile's
\* own animations
update_character_asset_generation_core_only(data, path) ==
    LET name == Get(data, "name", JStr(PathStem(path)))
        stripped == JMap([k \in DOMAIN data.v \ {"animations"} |-> data.v[k]])
        new_asset_config == get_comprehensive_asset_config(name, stripped, path)
    IN  IF Raised(new_asset_config) THEN new_asset_config
        ELSE Put(data, "assetGeneration", new_asset_config)

\* faulty variant: a prior assetGeneration block is kept
update_character_asset_generation_keeping_prior(data, path) ==
    LET name == Get(data, "name", JStr(PathStem(path)))
        new_asset_config == get_comprehensive_asset_config(name, data, path)
    IN  IF Raised(new_asset_config) THEN new_asset_config
        ELSE IF Has(data, "assetGeneration") THEN data
        ELSE Put(data, "assetGeneration", new_asset_config)

\* the document update_character_asset_generation writes back to the file,
\* or the exception its try block catches
update_character_asset_generation(data, path) ==
    LET name == Get(data, "name", JStr(PathStem(path)))
        new_asset_config == get_comprehensive_asset_config(name, data, path)
    IN  IF Raised(new_asset_config) THEN new_asset_config
        ELSE Put(data, "assetGeneration", new_asset_config)

\* str(e) of the exception existing_animations.keys() raises
keys_error_text(data) ==
    "'" \o PyTypeName(Get(data, "animations", JMap(<<>>)))
        \o "' object has no attribute 'keys'"

\* a descriptor written by hand, under a name no tool knows
custom_descriptor ==
    JMap([promptModifier |-> JStr("hand-written pose"),
          stateDescription |-> JStr("Hand-written state"),
          frameCount |-> JInt(3)])

\* what a profile may hold under assetGeneration before the update
PriorAssetGeneration ==
    {JNull,
     JStr("pending"),
     get_character_asset_config(JStr("default"), JMap(<<>>)),
     JMap([basePrompt |-> JStr("hand-written prompt"),
           animationMappings |->
               JMap([idle |-> custom_descriptor, blushing |-> custom_descriptor])])}

\* what a profile may hold under battleSystem before any tool ran
PriorBattleSystem ==
    {JNull, JMap([enabled |-> JBool(TRUE)]), JMap([enabled |-> JBool(FALSE)])}

UpdateProfiles ==
    MergeProfiles
    \cup {Put(p, "assetGeneration", prior) :
            p \in MergeProfiles, prior \in PriorAssetGeneration}
    \cup {Put(Profile(JStr("a mystical guide"),
                      JMap([idle |-> animation_file])),
              "battleSystem", prior) : prior \in PriorBattleSystem}

InitUpdate ==
    /\ file_path \in MergePaths
    /\ char_data \in UpdateProfiles
    /\ char_name = JStr(PathName(PathParent(file_path)))
    /\ Fresh

\* success, error = update_character_asset_generation(char_file)
Update ==
    /\ pc \in {"start", "completed", "updated"}
    /\ calls < MaxCalls
    /\ LET written == update_character_asset_generation(char_data, file_path)
       IN  /\ char_data' = IF Raised(written) THEN char_data ELSE written
           /\ result' = IF Raised(written)
                        THEN JList(<<JBool(FALSE), JStr(keys_error_text(char_data))>>)
                        ELSE JList(<<JBool(TRUE), JNull>>)
           /\ pc' = IF Raised(written) THEN "raised" ELSE "updated"
    /\ before' = char_data
    /\ calls' = calls + 1
    /\ UNCHANGED <<char_name, file_path, asset_files, characters>>

NextUpdate == Update \/ Complete

SpecUpdate == InitUpdate /\ [][NextUpdate]_vars


(***************************************************************************)
(* scripts/validate_characters.py: Python operations the checks use        *)
(***************************************************************************)
\* the list of messages a check returns
Errors(messages) == [t |-> "errors", v |-> messages]

\* first, then rest: the first exception ends the run of checks
Then(first, rest) ==
    IF Raised(first) THEN first
    ELSE IF Raised(rest) THEN rest
    ELSE Errors(first.v \o rest.v)

RECURSIVE ThenAllFrom(_, _)
ThenAllFrom(outcomes, i) ==
    IF i > Len(outcomes) THEN Errors(<<>>)
    ELSE Then(outcomes[i], ThenAllFrom(outcomes, i + 1))

\* the iterations of a for loop, in order
ThenAll(outcomes) == ThenAllFrom(outcomes, 1)

\* errors.append(message) under a condition
ErrorIf(condition, message) ==
    IF condition THEN Errors(<<message>>) ELSE Errors(<<>>)

\* the values `in` and len() accept
Iterable(c) == c.t \in {"map", "list", "str"}

\* key in c, for a string key and an iterable c: a key of a dict, an element
\* of a list, a substring of a str
PyIn(key, c) ==
    CASE c.t = "map"  -> key \in DOMAIN c.v
      [] c.t = "list" -> \E i \in 1..Len(c.v) : c.v[i] = JStr(key)
      [] c.t = "str"  -> Contains(c.v, key)

\* len(x), for a str, a list or a dict
PyLen(x) == IF x.t = "map" THEN Cardinality(DOMAIN x.v) ELSE Len(x.v)

\* the keys of a mapping in file order; order lists the names a profile of
\* the input family may hold, in the order its file holds them
KeysInOrder(d, order) == SelectSeq(order, LAMBDA k : k \in DOMAIN d.v)

\* x == 128
Is128(x) == x \in {JInt(128), JFloat("128.0")}

(***************************************************************************)
(* scripts/validate_characters.py: validate_json_syntax                    *)
(***************************************************************************)
\* what json.load makes of a file that cannot be read or parsed
LoadError(exc, text) == [t |-> "raise", v |-> exc, text |-> text]

\* the (syntax_valid, syntax_msg) pair
validate_json_syntax(loaded) ==
    IF ~Raised(loaded) THEN <<TRUE, "Valid JSON syntax">>
    ELSE IF loaded.v = "JSONDecodeError"
    THEN <<FALSE, "JSON syntax error: " \o loaded.text>>
    ELSE <<FALSE, "File error: " \o loaded.text>>

(***************************************************************************)
(* scripts/validate_characters.py: validate_required_fields                *)
(***************************************************************************)
required_fields == <<"name", "description", "animations">>

\* faulty variant: "sad" is not required
required_animations_without_sad == <<"idle", "talking", "happy">>

required_animations == <<"idle", "talking", "happy", "sad">>

\* faulty variant: errors is a list shared by the calls, so a later call
\* starts from the errors of the call before
validate_required_fields_shared_list(data) ==
    LET own ==
            Then(ThenAll([i \in 1..Len(required_fields) |->
                            ErrorIf(~Has(data, required_fields[i]),
                                    "Missing required field: " \o required_fields[i])]),
                 IF ~Has(data, "animations") THEN Errors(<<>>)
                 ELSE IF ~Iterable(data.v["animations"]) THEN Raise("TypeError")
                 ELSE ThenAll([i \in 1..Len(required_animations) |->
                            ErrorIf(~PyIn(required_animations[i], data.v["animations"]),
                                    "Missing required animation: "
                                        \o required_animations[i])]))
        earlier == IF pc = "validated" THEN result.errors ELSE <<>>
    IN  IF Raised(own) THEN own ELSE Errors(earlier \o own.v)

validate_required_fields(data) ==
    Then(ThenAll([i \in 1..Len(required_fields) |->
                    ErrorIf(~Has(data, required_fields[i]),
                            "Missing required field: " \o required_fields[i])]),
         IF ~Has(data, "animations") THEN Errors(<<>>)
         ELSE IF ~Iterable(data.v["animations"]) THEN Raise("TypeError")
         ELSE ThenAll([i \in 1..Len(required_animations) |->
                    ErrorIf(~PyIn(required_animations[i], data.v["animations"]),
                            "Missing required animation: "
                                \o required_animations[i])]))

(***************************************************************************)
(* scripts/validate_characters.py: validate_asset_generation               *)
(***************************************************************************)
asset_generation_fields ==
    <<"basePrompt", "animationMappings", "generationSettings">>

\* for field in required_asset_fields
asset_field_errors(asset_gen) ==
    IF ~Iterable(asset_gen) THEN Raise("TypeError")
    ELSE ThenAll([i \in 1..Len(asset_generation_fields) |->
            ErrorIf(~PyIn(asset_generation_fields[i], asset_gen),
                    "assetGeneration missing required field: "
                        \o asset_generation_fields[i])])

\* c[key] once `key in c` held: only a dict is indexed by a string
Subscript(c, key) == IF IsMap(c) THEN c.v[key] ELSE Raise("TypeError")

\* faulty variant: the cue is searched in the prompt as written
base_prompt_errors_case_sensitive(prompt) ==
    Then(IF ~Truthy(prompt)
         THEN Errors(<<"basePrompt should be at least 50 characters for quality generation">>)
         ELSE IF ~Iterable(prompt) THEN Raise("TypeError")
         ELSE ErrorIf(PyLen(prompt) < 50,
                      "basePrompt should be at least 50 characters for quality generation"),
         IF prompt.t /= "str" THEN Raise("AttributeError")
         ELSE ErrorIf(~Contains(prompt.v, "transparent background"),
                      "basePrompt should include 'transparent background' for proper asset generation"))

\* the two checks on prompt = asset_gen["basePrompt"]
base_prompt_errors(prompt) ==
    Then(IF ~Truthy(prompt)
         THEN Errors(<<"basePrompt should be at least 50 characters for quality generation">>)
         ELSE IF ~Iterable(prompt) THEN Raise("TypeError")
         ELSE ErrorIf(PyLen(prompt) < 50,
                      "basePrompt should be at least 50 characters for quality generation"),
         IF prompt.t /= "str" THEN Raise("AttributeError")
         ELSE ErrorIf(~Contains(Lower(prompt.v), "transparent background"),
                      "basePrompt should include 'transparent background' for proper asset generation"))

required_anims == <<"idle", "talking", "happy", "sad">>

\* one iteration of for anim in required_anims
animation_mapping_errors(mappings, anim) ==
    IF ~Iterable(mappings) THEN Raise("TypeError")
    ELSE IF ~PyIn(anim, mappings)
    THEN Errors(<<"assetGeneration missing required animation mapping: " \o anim>>)
    ELSE IF Raised(Subscript(mappings, anim)) THEN Subscript(mappings, anim)
    ELSE LET mapping == mappings.v[anim]
         IN  IF ~Iterable(mapping) THEN Raise("TypeError")
             ELSE Then(ErrorIf(~PyIn("promptModifier", mapping),
                               "Animation " \o anim \o " missing promptModifier"),
                       ErrorIf(~PyIn("stateDescription", mapping),
                               "Animation " \o anim \o " missing stateDescription"))

known_models == {JStr("flux1d"), JStr("flux1s"), JStr("sdxl")}

known_art_styles ==
    {JStr("anime"), JStr("pixel_art"), JStr("realistic"), JStr("cartoon"),
     JStr("chibi")}

\* the if/elif on one enumerated setting
enumerated_setting_errors(settings, key, known, missing, unknown) ==
    IF ~PyIn(key, settings) THEN Errors(<<missing>>)
    ELSE IF Raised(Subscript(settings, key)) THEN Subscript(settings, key)
    ELSE ErrorIf(settings.v[key] \notin known,
                 unknown \o PyFormat(settings.v[key]))

\* the checks on resolution = settings["resolution"]
resolution_errors(settings) ==
    IF ~PyIn("resolution", settings) THEN Errors(<<>>)
    ELSE IF Raised(Subscript(settings, "resolution"))
    THEN Subscript(settings, "resolution")
    ELSE LET resolution == settings.v["resolution"]
         IN  IF ~Iterable(resolution) THEN Raise("TypeError")
             ELSE IF ~PyIn("width", resolution) \/ ~PyIn("height", resolution)
             THEN Errors(<<"resolution missing width or height">>)
             ELSE IF ~IsMap(resolution) THEN Raise("AttributeError")
             ELSE ErrorIf(~Is128(resolution.v["width"])
                              \/ ~Is128(resolution.v["height"]),
                          "resolution should be 128x128 for desktop companion compatibility")

\* the checks on settings = asset_gen["generationSettings"]
generation_settings_errors(settings) ==
    IF ~Iterable(settings) THEN Raise("TypeError")
    ELSE Then(enumerated_setting_errors(settings, "model", known_models,
                  "generationSettings missing model specification",
                  "Unknown model: "),
         Then(enumerated_setting_errors(settings, "artStyle", known_art_styles,
                  "generationSettings missing artStyle",
                  "Unknown artStyle: "),
              resolution_errors(settings)))

\* a block of checks on asset_gen[key], run when key in asset_gen
asset_block(asset_gen, key, checks) ==
    IF ~PyIn(key, asset_gen) THEN Errors(<<>>)
    ELSE IF Raised(Subscript(asset_gen, key)) THEN Subscript(asset_gen, key)
    ELSE checks

validate_asset_generation(data) ==
    IF ~Has(data, "assetGeneration")
    THEN Errors(<<"Missing assetGeneration configuration">>)
    ELSE LET asset_gen == data.v["assetGeneration"]
         IN  Then(asset_field_errors(asset_gen),
             Then(asset_block(asset_gen, "basePrompt",
                      base_prompt_errors(asset_gen.v["basePrompt"])),
             Then(asset_block(asset_gen, "animationMappings",
                      ThenAll([i \in 1..Len(required_anims) |->
                          animation_mapping_errors(
                              asset_gen.v["animationMappings"],
                              required_anims[i])])),
                  asset_block(asset_gen, "generationSettings",
                      generation_settings_errors(
                          asset_gen.v["generationSettings"])))))

(***************************************************************************)
(* scripts/validate_characters.py: validate_feature_consistency            *)
(***************************************************************************)
\* if "key" in char_data and char_data["key"].get("enabled"): the block of
\* one subsystem is skipped, raises on a value without .get, or runs its checks
subsystem_block(data, key, checks) ==
    IF ~Has(data, key) THEN Errors(<<>>)
    ELSE IF ~IsMap(data.v[key]) THEN Raise("AttributeError")
    ELSE IF ~Truthy(Get(data.v[key], "enabled", JNull)) THEN Errors(<<>>)
    ELSE checks

\* whether x in c raises TypeError, for a JSON value x: a dict takes a
\* hashable x, a str takes a str, a list takes any x
InValueRaises(x, c) ==
    CASE c.t = "map"  -> x.t \in {"list", "map"}
      [] c.t = "list" -> FALSE
      [] c.t = "str"  -> x.t /= "str"
      [] OTHER        -> TRUE

\* x in c, when it does not raise
PyInValue(x, c) ==
    CASE c.t = "map"  -> x.t = "str" /\ x.v \in DOMAIN c.v
      [] c.t = "list" -> \E i \in 1..Len(c.v) : c.v[i] = x
      [] c.t = "str"  -> Contains(c.v, x.v)

\* faulty variant: defaultBackend is not looked up in backends
dialog_backend_errors_without_lookup(backend) ==
    IF ~Has(backend, "backends")
    THEN Errors(<<"dialogBackend enabled but no backends configured">>)
    ELSE ErrorIf(~Has(backend, "defaultBackend"),
                 "dialogBackend missing defaultBackend specification")

\* the if/elif/elif on backend = char_data["dialogBackend"]
dialog_backend_errors(backend) ==
    IF ~Has(backend, "backends")
    THEN Errors(<<"dialogBackend enabled but no backends configured">>)
    ELSE IF ~Has(backend, "defaultBackend")
    THEN Errors(<<"dialogBackend missing defaultBackend specification">>)
    ELSE IF InValueRaises(backend.v["defaultBackend"], backend.v["backends"])
    THEN Raise("TypeError")
    ELSE ErrorIf(~PyInValue(backend.v["defaultBackend"], backend.v["backends"]),
                 "dialogBackend defaultBackend not found in backends configuration")

\* faulty variant: the checks chained with elif, the first missing field
\* hides the others
companion_errors_chained(subsystem, fields, messages) ==
    LET missing == {i \in 1..Len(fields) : ~Has(subsystem, fields[i])}
    IN  IF missing = {} THEN Errors(<<>>)
        ELSE Errors(<<messages[CHOOSE i \in missing :
                                  \A j \in missing : i <= j]>>)

\* one `if field not in subsystem` after another
companion_errors(subsystem, fields, messages) ==
    ThenAll([i \in 1..Len(fields) |->
                ErrorIf(~Has(subsystem, fields[i]), messages[i])])

\* the numbers a stat holds
IsNumber(x) == x.t \in {"int", "bool"}

NumberOf(x) == IF x.t = "bool" THEN (IF x.v THEN 1 ELSE 0) ELSE x.v

\* faulty variant: an initial value equal to the maximum is also an error
stat_errors_inclusive(stat_name, stat_config) ==
    IF ~IsMap(stat_config) THEN Errors(<<>>)
    ELSE Then(
        IF ~(Has(stat_config, "max") /\ Has(stat_config, "initial"))
        THEN Errors(<<>>)
        ELSE IF ~(IsNumber(stat_config.v["initial"])
                    /\ IsNumber(stat_config.v["max"]))
        THEN Raise("TypeError")
        ELSE ErrorIf(NumberOf(stat_config.v["initial"])
                        >= NumberOf(stat_config.v["max"]),
                     "Stat " \o stat_name \o ": initial value exceeds maximum"),
        IF ~(Has(stat_config, "criticalThreshold") /\ Has(stat_config, "max"))
        THEN Errors(<<>>)
        ELSE IF ~(IsNumber(stat_config.v["criticalThreshold"])
                    /\ IsNumber(stat_config.v["max"]))
        THEN Raise("TypeError")
        ELSE ErrorIf(NumberOf(stat_config.v["criticalThreshold"])
                        >= NumberOf(stat_config.v["max"]),
                     "Stat " \o stat_name
                        \o ": criticalThreshold should be less than maximum"))

\* the two comparisons on one stat_config
stat_errors(stat_name, stat_config) ==
    IF ~IsMap(stat_config) THEN Errors(<<>>)
    ELSE Then(
        IF ~(Has(stat_config, "max") /\ Has(stat_config, "initial"))
        THEN Errors(<<>>)
        ELSE IF ~(IsNumber(stat_config.v["initial"])
                    /\ IsNumber(stat_config.v["max"]))
        THEN Raise("TypeError")
        ELSE ErrorIf(NumberOf(stat_config.v["initial"])
                        > NumberOf(stat_config.v["max"]),
                     "Stat " \o stat_name \o ": initial value exceeds maximum"),
        IF ~(Has(stat_config, "criticalThreshold") /\ Has(stat_config, "max"))
        THEN Errors(<<>>)
        ELSE IF ~(IsNumber(stat_config.v["criticalThreshold"])
                    /\ IsNumber(stat_config.v["max"]))
        THEN Raise("TypeError")
        ELSE ErrorIf(NumberOf(stat_config.v["criticalThreshold"])
                        >= NumberOf(stat_config.v["max"]),
                     "Stat " \o stat_name
                        \o ": criticalThreshold should be less than maximum"))

\* the stat names of the input family, in file order
StatOrder == <<"hp", "hunger", "happiness">>

stats_errors(data) ==
    IF ~Has(data, "stats") THEN Errors(<<>>)
    ELSE IF ~IsMap(data.v["stats"]) THEN Raise("AttributeError")
    ELSE LET names == KeysInOrder(data.v["stats"], StatOrder)
         IN  ThenAll([i \in 1..Len(names) |->
                        stat_errors(names[i], data.v["stats"].v[names[i]])])

validate_feature_consistency(data) ==
    Then(subsystem_block(data, "dialogBackend",
             dialog_backend_errors(data.v["dialogBackend"])),
    Then(subsystem_block(data, "giftSystem",
             companion_errors(data.v["giftSystem"],
                 <<"preferences", "inventorySettings">>,
                 <<"giftSystem enabled but preferences not configured",
                   "giftSystem enabled but inventorySettings not configured">>)),
    Then(subsystem_block(data, "multiplayer",
             companion_errors(data.v["multiplayer"],
                 <<"networkID", "networkPersonality">>,
                 <<"multiplayer enabled but missing networkID",
                   "multiplayer enabled but missing networkPersonality">>)),
    Then(subsystem_block(data, "battleSystem",
             companion_errors(data.v["battleSystem"],
                 <<"battleStats", "availableActions">>,
                 <<"battleSystem enabled but battleStats not configured",
                   "battleSystem enabled but availableActions not configured">>)),
         stats_errors(data)))))

(***************************************************************************)
(* scripts/validate_characters.py: validate_animation_paths                *)
(***************************************************************************)
\* char_dir / anim_path, for a path of plain segments
FullPath(char_dir, anim_path) ==
    IF Len(anim_path) > 0 /\ SubSeq(anim_path, 1, 1) = "/" THEN anim_path
    ELSE char_dir \o "/" \o anim_path

\* the look at the file of an animation no mapping covers
animation_file_errors(char_dir, files, anim_name, anim_path) ==
    IF FullPath(char_dir, anim_path) \notin files
    THEN Errors(<<"Animation file not found: " \o anim_path
                    \o " (for " \o anim_name \o ")">>)
    ELSE ErrorIf(Lower(PathSuffix(FullPath(char_dir, anim_path))) /= ".gif",
                 "Animation file should be GIF format: " \o anim_path)

\* faulty variant: the file of a mapped animation is looked at as well
animation_path_errors_ignoring_mappings(data, char_dir, files, anim_name) ==
    LET anim_path == data.v["animations"].v[anim_name]
    IN  IF anim_path.t /= "str" THEN Errors(<<>>)
        ELSE animation_file_errors(char_dir, files, anim_name, anim_path.v)

\* one iteration of for anim_name, anim_path in animations.items(): the file
\* is looked at when there is no asset generation or no mapping for the name
animation_path_errors(data, char_dir, files, anim_name) ==
    LET anim_path == data.v["animations"].v[anim_name]
        asset_gen == Get(data, "assetGeneration", JMap(<<>>))
        mappings == Get(asset_gen, "animationMappings", JMap(<<>>))
    IN  IF anim_path.t /= "str" THEN Errors(<<>>)
        ELSE IF ~Truthy(asset_gen)
        THEN animation_file_errors(char_dir, files, anim_name, anim_path.v)
        ELSE IF ~IsMap(asset_gen) THEN Raise("AttributeError")
        ELSE IF ~Iterable(mappings) THEN Raise("TypeError")
        ELSE IF PyIn(anim_name, mappings) THEN Errors(<<>>)
        ELSE animation_file_errors(char_dir, files, anim_name, anim_path.v)

\* the animation names of the input family, in file order
AnimationOrder ==
    <<"idle", "talking", "happy", "sad", "hungry", "eating", "dance">>

validate_animation_paths(data, char_dir, files) ==
    IF ~Has(data, "animations") THEN Errors(<<>>)
    ELSE IF ~IsMap(data.v["animations"]) THEN Raise("AttributeError")
    ELSE LET names == KeysInOrder(data.v["animations"], AnimationOrder)
         IN  ThenAll([i \in 1..Len(names) |->
                        animation_path_errors(data, char_dir, files, names[i])])

(***************************************************************************)
(* scripts/validate_characters.py: validate_character_file                 *)
(***************************************************************************)
\* the result dictionary
ValidationResult(path, valid, errors, warnings) ==
    [t |-> "result", character |-> PathName(PathParent(path)), path |-> path,
     valid |-> valid, errors |-> errors, warnings |-> warnings]

\* len(char_data.get(key, "")) compared with a minimum
too_short(data, key, minimum, message) ==
    IF ~Iterable(Get(data, key, JStr(""))) THEN Raise("TypeError")
    ELSE ErrorIf(PyLen(Get(data, key, JStr(""))) < minimum, message)

\* the three error stages of a parsed profile, in program order
stage_errors(data) ==
    Then(validate_required_fields(data),
    Then(validate_asset_generation(data),
         validate_feature_consistency(data)))

\* faulty variant: a warning also makes the profile invalid
valid_flag_counting_warnings(errors, warnings) ==
    errors = <<>> /\ warnings = <<>>

\* valid stays True unless result["errors"] is non-empty
valid_flag(errors, warnings) == errors = <<>>

\* the result of validate_character_file for the loaded document, or the
\* exception that leaves it; reloaded is what the second json.load returns
validate_character_file(path, loaded, reloaded, files) ==
    IF ~validate_json_syntax(loaded)[1]
    THEN ValidationResult(path, FALSE, <<validate_json_syntax(loaded)[2]>>, <<>>)
    ELSE IF Raised(reloaded)
    THEN ValidationResult(path, FALSE,
             <<"Failed to load character data: " \o reloaded.text>>, <<>>)
    ELSE LET stages == stage_errors(reloaded)
             paths == validate_animation_paths(reloaded, PathParent(path), files)
             name == too_short(reloaded, "name", 1,
                         "Character name cannot be empty")
             description ==
                 too_short(reloaded, "description", 10,
                     "Character description should be more descriptive (at least 10 characters)")
             personality ==
                 ErrorIf(~Has(reloaded, "personality")
                             \/ ~Truthy(reloaded.v["personality"]),
                         "Character missing personality configuration")
             \* the statements in program order; the first exception leaves
             run == Then(stages, Then(paths, Then(name,
                        Then(description, personality))))
         IN  IF Raised(run) THEN run
             ELSE ValidationResult(path,
                      valid_flag(stages.v \o name.v,
                                 paths.v \o description.v \o personality.v),
                      stages.v \o name.v,
                      paths.v \o description.v \o personality.v)

(***************************************************************************)
(* scripts/validate_characters.py: the profiles and files of a run         *)
(***************************************************************************)
MaxEdits == 2

ValidatePath == "characters/aria/character.json"

\* the animations of the complete profile
BaseAnimations == {"idle", "talking", "happy", "sad", "hungry", "eating"}

\* the animation files of the character directory
AnimationFile(anim) == JStr("animations/" \o anim \o ".gif")

\* a complete profile, its assetGeneration synthesized by the update tool
ValidBase ==
    LET hand_written ==
            JMap([name |-> JStr("Aria"),
                  description |-> JStr("a mystical guide"),
                  animations |-> JMap([a \in BaseAnimations |-> AnimationFile(a)]),
                  personality |-> JMap([traits |-> JMap([shyness |-> JInt(1)])])])
    IN  update_character_asset_generation(hand_written, ValidatePath)

\* the marker of an edit that deletes its key
Absent == [t |-> "absent"]

Ten == "0123456789"

\* 50 characters without the cue
Prompt50 == Ten \o Ten \o Ten \o Ten \o Ten

\* 60 characters with the cue in capitals
Prompt60 == "A cheerful mascot, TRANSPARENT BACKGROUND, " \o SubSeq(Prompt50, 1, 17)

descriptor_with(promptModifier, stateDescription) ==
    JMap([promptModifier |-> JStr(promptModifier),
          stateDescription |-> JStr(stateDescription),
          frameCount |-> JInt(4)])

resolution_of(width, height) == JMap([width |-> width, height |-> height])

markov_backends == JMap([markov_chain |-> JMap([enabled |-> JBool(TRUE)])])

stat_of(initial, max, criticalThreshold) ==
    JMap([initial |-> JInt(initial), max |-> JInt(max),
          criticalThreshold |-> JInt(criticalThreshold)])

\* the edits of ValidBase: a key (by its path) and what it holds
Edits ==
    ({<<"name">>} \X {Absent, JNull, JStr("")})
    \cup ({<<"description">>} \X {Absent, JStr("short")})
    \cup ({<<"animations">>} \X {Absent, JNull, JMap(<<>>)})
    \cup ({<<"animations", "sad">>} \X {Absent})
    \cup ({<<"animations", "hungry">>}
            \X {Absent, JStr("animations/hungry.png")})
    \cup ({<<"animations", "idle">>} \X {JStr("animations/idle.png")})
    \cup ({<<"personality">>} \X {Absent, JMap(<<>>)})
    \cup ({<<"assetGeneration">>} \X {Absent, JNull, JMap(<<>>)})
    \cup ({<<"assetGeneration", "basePrompt">>}
            \X {Absent, JNull, JStr(""), JStr("short"),
                JStr("Transparent Background"), JStr(SubSeq(Prompt50, 1, 49)),
                JStr(Prompt50), JStr(Prompt60)})
    \cup ({<<"assetGeneration", "animationMappings">>}
            \X {Absent, JMap(<<>>)})
    \cup ({<<"assetGeneration", "animationMappings", "idle">>}
            \X {Absent,
                descriptor_with("", "Character at rest"),
                descriptor_with("calm pose", ""),
                JMap([promptModifier |-> JStr("calm pose")])})
    \cup ({<<"assetGeneration", "animationMappings", "hungry">>} \X {Absent})
    \cup ({<<"assetGeneration", "generationSettings">>}
            \X {Absent, JMap(<<>>)})
    \cup ({<<"assetGeneration", "generationSettings", "model">>}
            \X {Absent, JStr("sdxl"), JStr("dalle")})
    \cup ({<<"assetGeneration", "generationSettings", "artStyle">>}
            \X {Absent, JStr("oil")})
    \cup ({<<"assetGeneration", "generationSettings", "resolution">>}
            \X {Absent, resolution_of(JInt(256), JInt(128)),
                JMap([width |-> JInt(128)])})
    \cup ({<<"dialogBackend">>}
            \X {JList(<<>>),
                JMap([enabled |-> JBool(FALSE)]),
                JMap([enabled |-> JBool(TRUE)]),
                JMap([enabled |-> JBool(TRUE), backends |-> markov_backends]),
                JMap([enabled |-> JBool(TRUE), defaultBackend |-> JStr("llm")]),
                JMap([enabled |-> JBool(TRUE), backends |-> markov_backends,
                      defaultBackend |-> JStr("llm")]),
                JMap([enabled |-> JBool(TRUE), backends |-> markov_backends,
                      defaultBackend |-> JStr("markov_chain")]),
                JMap([enabled |-> JBool(FALSE), defaultBackend |-> JStr("llm")])})
    \cup ({<<"giftSystem">>}
            \X {JMap([enabled |-> JBool(TRUE)]),
                JMap([enabled |-> JBool(TRUE), preferences |-> JMap(<<>>)]),
                JMap([enabled |-> JBool(TRUE), inventorySettings |-> JMap(<<>>)]),
                JMap([enabled |-> JBool(TRUE), preferences |-> JMap(<<>>),
                      inventorySettings |-> JMap(<<>>)]),
                JMap([enabled |-> JBool(FALSE)])})
    \cup ({<<"multiplayer">>}
            \X {JMap([enabled |-> JBool(TRUE)]),
                JMap([enabled |-> JBool(TRUE), networkID |-> JStr("aria_bot")]),
                JMap([enabled |-> JBool(TRUE), networkID |-> JStr("aria_bot"),
                      networkPersonality |-> JMap(<<>>)]),
                JMap([enabled |-> JBool(FALSE)])})
    \cup ({<<"battleSystem">>}
            \X {JMap([enabled |-> JBool(TRUE)]),
                JMap([enabled |-> JBool(TRUE), availableActions |-> JList(<<>>)]),
                JMap([enabled |-> JBool(TRUE), battleStats |-> JMap(<<>>),
                      availableActions |-> JList(<<>>)]),
                JMap([battleStats |-> JMap(<<>>)])})
    \cup ({<<"stats">>}
            \X {JMap([hunger |-> stat_of(120, 100, 20)]),
                JMap([hunger |-> stat_of(50, 100, 100),
                      happiness |-> stat_of(101, 100, 100)]),
                JMap([hp |-> JMap([initial |-> JInt(120), max |-> JInt(100)])]),
                JMap([hp |-> stat_of(100, 100, 20)]),
                JMap([hp |-> JMap([initial |-> JInt(120),
                                   criticalThreshold |-> JInt(150)])]),
                JMap([hp |-> JInt(5), hunger |-> stat_of(50, 100, 99)])})

\* d without the key
Without(d, key) == JMap([k \in DOMAIN d.v \ {key} |-> d.v[k]])

\* d with the key at the end of path set to value, or deleted; a path that
\* does not lead through mappings changes nothing
RECURSIVE SetAt(_, _, _)
SetAt(d, path, value) ==
    IF ~IsMap(d) THEN d
    ELSE IF Len(path) = 1
    THEN IF value = Absent THEN Without(d, path[1]) ELSE Put(d, path[1], value)
    ELSE IF ~Has(d, path[1]) THEN d
    ELSE Put(d, path[1], SetAt(d.v[path[1]], Tail(path), value))

RECURSIVE ApplyEdits(_, _, _)
ApplyEdits(d, edits, depth) ==
    LET here == {e \in edits : Len(e[1]) = depth}
    IN  IF edits = {} THEN d
        ELSE IF here = {} THEN ApplyEdits(d, edits, depth + 1)
        ELSE LET e == CHOOSE x \in here : TRUE
             IN  ApplyEdits(SetAt(d, e[1], e[2]), edits \ {e}, depth)

\* the deviation that leaves the character directory without its files
FilesMissing == <<<<"animations/">>, Absent>>

\* the sets of at most n deviations (edits of the profile, missing files),
\* no two of them at the same key
RECURSIVE Deviations(_)
Deviations(n) ==
    IF n = 0 THEN {{}}
    ELSE LET fewer == Deviations(n - 1)
         IN  fewer \cup {E \cup {e} : E \in fewer,
                           e \in Edits \cup {FilesMissing}}

DistinctKeys(E) == \A e1, e2 \in E : e1[1] = e2[1] => e1 = e2

\* what json.load raises on a file that is not a profile
LoadErrors ==
    {LoadError("JSONDecodeError",
               "Expecting property name enclosed in double quotes: line 1 column 2 (char 1)"),
     LoadError("PermissionError",
               "[Errno 13] Permission denied: '" \o ValidatePath \o "'")}

\* the file vanished between the two json.load calls
Vanished(path) ==
    LoadError("FileNotFoundError",
              "[Errno 2] No such file or directory: '" \o path \o "'")

\* the files a profile of the family can name
CharacterFiles ==
    {FullPath(PathParent(ValidatePath), "animations/" \o a \o ".gif") :
        a \in BaseAnimations}
    \cup {FullPath(PathParent(ValidatePath), "animations/" \o a \o ".png") :
            a \in {"idle", "hungry"}}

InitValidate ==
    /\ file_path = ValidatePath
    /\ \/ \E E \in {X \in Deviations(MaxEdits) : DistinctKeys(X)} :
             /\ char_data = ApplyEdits(ValidBase, E \ {FilesMissing}, 1)
             /\ asset_files = IF FilesMissing \in E THEN {} ELSE CharacterFiles
       \/ /\ char_data \in LoadErrors
          /\ asset_files = CharacterFiles
    /\ char_name = JStr(PathName(PathParent(file_path)))
    /\ pc = "start"
    /\ result = JNull
    /\ before = JNull
    /\ calls = 0
    /\ characters = JMap(<<>>)

\* result = validate_character_file(char_file), in the loop of main: an
\* exception leaves the loop and main
Validate ==
    /\ pc = "start"
    /\ \E reloaded \in {char_data, Vanished(file_path)} :
          result' = validate_character_file(file_path, char_data,
                        IF Raised(char_data) THEN char_data ELSE reloaded,
                        asset_files)
    /\ pc' = IF Raised(result') THEN "aborted" ELSE "validated"
    /\ before' = char_data
    /\ calls' = calls + 1
    /\ UNCHANGED <<char_name, char_data, file_path, asset_files, characters>>

NextValidate == Validate

SpecValidate == InitValidate /\ [][NextValidate]_vars

(***************************************************************************)
(* scripts/validate_characters.py: a profile validated again               *)
(***************************************************************************)
MaxRevalidateEdits == 1

InitRevalidate ==
    /\ file_path = ValidatePath
    /\ \/ \E E \in {X \in Deviations(MaxRevalidateEdits) : DistinctKeys(X)} :
             /\ char_data = ApplyEdits(ValidBase, E \ {FilesMissing}, 1)
             /\ asset_files = IF FilesMissing \in E THEN {} ELSE CharacterFiles
       \/ /\ char_data \in LoadErrors
          /\ asset_files = CharacterFiles
    /\ char_name = JStr(PathName(PathParent(file_path)))
    /\ pc = "start"
    /\ result = JNull
    /\ before = JNull
    /\ calls = 0
    /\ characters = JMap(<<>>)

\* the script run again over the same directory: validate_character_file
\* reads the file and the character directory anew
Revalidate ==
    /\ pc = "validated"
    /\ calls < MaxCalls
    /\ \E reloaded \in {char_data, Vanished(file_path)} :
          result' = validate_character_file(file_path, char_data,
                        IF Raised(char_data) THEN char_data ELSE reloaded,
                        asset_files)
    /\ pc' = IF Raised(result') THEN "aborted" ELSE "validated"
    /\ before' = char_data
    /\ calls' = calls + 1
    /\ UNCHANGED <<char_name, char_data, file_path, asset_files, characters>>

NextRevalidate == Validate \/ Revalidate

SpecRevalidate == InitRevalidate /\ [][NextRevalidate]_vars

(***************************************************************************)
(* scripts/character_audit.py: analyze_feature_coverage                    *)
(***************************************************************************)
CORE_FEATURES ==
    <<"dialogBackend", "giftSystem", "multiplayer", "newsFeatures",
      "battleSystem", "assetGeneration">>

ROMANCE_FEATURES == <<"personality", "romanceDialogs", "romanceEvents">>

INTERACTIVE_FEATURES ==
    <<"generalEvents", "randomEvents", "progression", "interactions">>

BASIC_FEATURES == <<"animations", "dialogs", "behavior", "stats", "gameRules">>

ALL_FEATURES ==
    CORE_FEATURES \o ROMANCE_FEATURES \o INTERACTIVE_FEATURES \o BASIC_FEATURES

\* the directory names of the corpus, in the order load_character_files
\* found them
CharacterOrder == <<"aria", "klippy", "luna">>

\* a list of strings as a JSON list
StrList(q) == JList([i \in 1..Len(q) |-> JStr(q[i])])

\* faulty variant: a feature counts as soon as its key is present
has_feature_by_key(data, feature) ==
    IF ~Iterable(data) THEN Raise("TypeError")
    ELSE IF ~PyIn(feature, data) THEN JBool(FALSE)
    ELSE IF ~IsMap(data) THEN Raise("TypeError")
    ELSE JBool(TRUE)

\* has_feature = feature in char_data and char_data[feature]: False, or the
\* value under the key
has_feature(data, feature) ==
    IF ~Iterable(data) THEN Raise("TypeError")
    ELSE IF ~PyIn(feature, data) THEN JBool(FALSE)
    ELSE IF ~IsMap(data) THEN Raise("TypeError")
    ELSE data.v[feature]

\* (count / total) * 100 if total > 0 else 0, as Python prints the float;
\* exact for a total of at most 4
percentage(count, total) ==
    IF total > 0
    THEN JFloat(IF (count * 100) % total = 0
                THEN NatToStr((count * 100) \div total) \o ".0"
                ELSE IF 3 * count = total THEN "33.33333333333333"
                ELSE "66.66666666666666")
    ELSE JInt(0)

analyze_feature_coverage(corpus) ==
    LET names == KeysInOrder(corpus, CharacterOrder)
        features == {ALL_FEATURES[i] : i \in DOMAIN ALL_FEATURES}
        cell(n, f) == has_feature(corpus.v[n], f)
        failing == SelectSeq(names,
                       LAMBDA n : \E f \in features : Raised(cell(n, f)))
        feature_matrix ==
            JMap([n \in DOMAIN corpus.v |-> JMap([f \in features |-> cell(n, f)])])
        missing(n) == SelectSeq(ALL_FEATURES, LAMBDA f : ~Truthy(cell(n, f)))
        missing_features ==
            JMap([n \in {c \in DOMAIN corpus.v : missing(c) /= <<>>} |->
                     StrList(missing(n))])
        count(f) ==
            Cardinality({n \in DOMAIN corpus.v :
                            Truthy(Get(feature_matrix.v[n], f, JBool(FALSE)))})
        total == Cardinality(DOMAIN corpus.v)
        feature_stats ==
            JMap([f \in features |->
                     JMap([count |-> JInt(count(f)),
                           total |-> JInt(total),
                           percentage |-> percentage(count(f), total)])])
    IN  IF failing /= <<>> THEN Raise("TypeError")
        ELSE JMap([characters |-> StrList(names),
                   feature_matrix |-> feature_matrix,
                   missing_features |-> missing_features,
                   feature_stats |-> feature_stats,
                   total_characters |-> JInt(total)])

(***************************************************************************)
(* scripts/character_audit.py: analyze_asset_generation                    *)
(***************************************************************************)
\* "assetGeneration" in char_data and char_data["assetGeneration"], as the
\* if takes it
has_asset_generation(data) ==
    IF ~Iterable(data) THEN Raise("TypeError")
    ELSE IF ~PyIn("assetGeneration", data) THEN JBool(FALSE)
    ELSE IF ~IsMap(data) THEN Raise("TypeError")
    ELSE JBool(Truthy(data.v["assetGeneration"]))

\* [field for field in required_fields if field not in asset_gen]
missing_fields(asset_gen) ==
    IF ~Iterable(asset_gen) THEN Raise("TypeError")
    ELSE StrList(SelectSeq(asset_generation_fields,
                           LAMBDA field : ~PyIn(field, asset_gen)))

\* the names asset_gen["animationMappings"].keys() yields, as a JSON map
\* over them
mapped_names(asset_gen) ==
    IF ~PyIn("animationMappings", asset_gen) THEN JMap(<<>>)
    ELSE IF ~IsMap(asset_gen) THEN Raise("TypeError")
    ELSE IF ~IsMap(asset_gen.v["animationMappings"]) THEN Raise("AttributeError")
    ELSE JMap([a \in DOMAIN asset_gen.v["animationMappings"].v |-> JNull])

\* what one iteration of the loop learns of a character, or the exception
\* that leaves it
asset_entry(data) ==
    LET asset_gen == data.v["assetGeneration"]
    IN  IF Raised(has_asset_generation(data)) THEN has_asset_generation(data)
        ELSE IF ~has_asset_generation(data).v
        THEN [t |-> "entry", has |-> FALSE, missing |-> StrList(<<>>),
              mapped |-> JMap(<<>>)]
        ELSE IF Raised(missing_fields(asset_gen)) THEN missing_fields(asset_gen)
        ELSE IF Raised(mapped_names(asset_gen)) THEN mapped_names(asset_gen)
        ELSE [t |-> "entry", has |-> TRUE, missing |-> missing_fields(asset_gen),
              mapped |-> mapped_names(asset_gen)]

analyze_asset_generation(corpus) ==
    LET names == KeysInOrder(corpus, CharacterOrder)
        entry(n) == asset_entry(corpus.v[n])
        failing == SelectSeq(names, LAMBDA n : Raised(entry(n)))
        incomplete == SelectSeq(names,
                          LAMBDA n : entry(n).has /\ entry(n).missing.v /= <<>>)
        animations == UNION {DOMAIN entry(n).mapped.v : n \in DOMAIN corpus.v}
    IN  IF failing /= <<>> THEN entry(failing[1])
        ELSE JMap([has_asset_generation |->
                       StrList(SelectSeq(names, LAMBDA n : entry(n).has)),
                   missing_asset_generation |->
                       StrList(SelectSeq(names, LAMBDA n : ~entry(n).has)),
                   incomplete_configurations |->
                       JList([i \in 1..Len(incomplete) |->
                                JMap([character |-> JStr(incomplete[i]),
                                      missing_fields |->
                                          entry(incomplete[i]).missing])]),
                   animation_mappings |->
                       JMap([a \in animations |->
                                StrList(SelectSeq(names,
                                    LAMBDA n : a \in DOMAIN entry(n).mapped.v))])])

(***************************************************************************)
(* scripts/character_audit.py: the corpora of a run                        *)
(***************************************************************************)
MaxCorpus == 2    \* characters of a corpus

\* every audited feature configured
FullProfile ==
    JMap([f \in {ALL_FEATURES[i] : i \in DOMAIN ALL_FEATURES} |->
             IF f = "assetGeneration" THEN ValidBase.v[f]
             ELSE JMap([enabled |-> JBool(TRUE)])])

AuditProfiles ==
    {JMap(<<>>),
     ValidBase,
     FullProfile,
     Put(ValidBase, "assetGeneration", JMap(<<>>)),
     Put(ValidBase, "assetGeneration", JNull),
     Put(ValidBase, "assetGeneration", JStr("pending")),
     Put(ValidBase, "assetGeneration", JMap([basePrompt |-> JStr("short")])),
     SetAt(ValidBase, <<"assetGeneration", "basePrompt">>, Absent),
     Put(Put(Put(add_missing_features_to_character(JStr("aria"),
                     Profile(JStr("a mystical guide"),
                             JMap([idle |-> animation_file]))),
                 "stats", JMap(<<>>)),
             "dialogs", JList(<<>>)),
         "gameRules", JBool(FALSE))}

Corpora ==
    {JMap(f) : f \in UNION {[S -> AuditProfiles] :
                    S \in {T \in SUBSET {CharacterOrder[i] :
                                            i \in DOMAIN CharacterOrder} :
                             Cardinality(T) <= MaxCorpus}}}

InitAudit ==
    /\ characters \in Corpora
    /\ char_name = JNull
    /\ char_data = JNull
    /\ file_path = "characters"
    /\ pc = "start"
    /\ result = JNull
    /\ before = JNull
    /\ calls = 0
    /\ asset_files = {}

\* analysis = analyze_feature_coverage(characters)
AnalyzeCoverage ==
    /\ pc = "start"
    /\ result' = analyze_feature_coverage(characters)
    /\ pc' = IF Raised(result') THEN "raised" ELSE "covered"
    /\ before' = characters
    /\ calls' = calls + 1
    /\ UNCHANGED <<char_name, char_data, file_path, asset_files, characters>>

\* asset_analysis = analyze_asset_generation(characters)
AnalyzeAssets ==
    /\ pc = "covered"
    /\ result' = analyze_asset_generation(characters)
    /\ pc' = IF Raised(result') THEN "raised" ELSE "audited"
    /\ before' = characters
    /\ calls' = calls + 1
    /\ UNCHANGED <<char_name, char_data, file_path, asset_files, characters>>

NextAudit == AnalyzeCoverage \/ AnalyzeAssets

SpecAudit == InitAudit /\ [][NextAudit]_vars


(***************************************************************************)
(* Feature completion: add_missing_features_to_character                   *)
(***************************************************************************)
\* the fixed default stub of a subsystem key
DefaultStub(key) ==
    CASE key = "randomEvents"  -> default_randomEvents
      [] key = "dialogBackend" -> default_dialogBackend
      [] key = "giftSystem"    -> default_giftSystem
      [] key = "multiplayer"   -> default_multiplayer(char_name)
      [] key = "newsFeatures"  -> default_newsFeatures
      [] key = "battleSystem"  -> default_battleSystem
      [] key = "generalEvents" -> default_generalEvents
      [] key = "progression"   -> default_progression
      [] key = "behavior"      -> default_behavior

\* the key is absent from the profile or holds a falsy value
AbsentOrFalsy(data, key) == ~Has(data, key) \/ ~Truthy(data.v[key])

\* C1: completion non-destructiveness.  Every subsystem key that held a
\* truthy value when add_missing_features_to_character was called holds the
\* identical value when the call has returned.
CompletionNonDestructive ==
    pc = "completed" =>
        \A key \in SubsystemKeys :
            (Has(before, key) /\ Truthy(before.v[key])) =>
                (Has(char_data, key) /\ char_data.v[key] = before.v[key])

\* a first run that kept a hand-written truthy value and filled another key
CompletionKeptAValue ==
    /\ pc = "completed"
    /\ calls = 1
    /\ \E key \in SubsystemKeys :
          Has(before, key) /\ Truthy(before.v[key]) /\ key /= "assetGeneration"
    /\ \E key \in SubsystemKeys : ~Has(before, key) /\ Has(char_data, key)

\* C2: completion fills every hole.  Each of the nine keys after
\* assetGeneration that was absent or falsy holds its default stub after the
\* call, and assetGeneration is filled only when it was wholly absent.
CompletionFillsEveryHole ==
    pc = "completed" =>
        /\ \A key \in SubsystemKeys \ {"assetGeneration"} :
              AbsentOrFalsy(before, key) =>
                  (Has(char_data, key) /\ char_data.v[key] = DefaultStub(key))
        /\ Has(before, "assetGeneration") =>
              char_data.v["assetGeneration"] = before.v["assetGeneration"]

\* C3: completion idempotence.  A second run of
\* add_missing_features_to_character, with the same character name, over the
\* result of the first returns a profile equal to that result.
CompletionIdempotent ==
    (pc = "completed" /\ calls >= 2) => char_data = before

\* a second run over a profile whose battleSystem the first run had filled
CompletionRanTwice ==
    /\ pc = "completed"
    /\ calls = 2
    /\ char_data.v["battleSystem"] = default_battleSystem
    /\ Has(char_data, "assetGeneration")

(***************************************************************************)
(* Archetype classification: determine_character_archetype                 *)
(***************************************************************************)
\* the substrings whose presence in the lowercased path selects a path rule
PathRuleKeywords ==
    {"aria_luna", "tsundere", "flirty", "slow_burn", "slowburn", "supportive",
     "romance", "klippy", "easy", "normal", "hard", "challenge", "specialist",
     "multiplayer", "markov", "llm", "news"}

\* the substrings whose presence in the lowercased text selects a text rule
TextRuleKeywords ==
    {"tsundere", "flirty", "shy", "romance", "multiplayer", "social", "news",
     "helper"}

PathHasRule == \E k \in PathRuleKeywords : Contains(Lower(file_path), k)

\* the lowercased "name description" string of the classified profile
NameDescription ==
    Lower(PyFormat(char_name) \o " "
          \o PyFormat(Get(char_data, "description", JStr(""))))

TextHasRule == \E k \in TextRuleKeywords : Contains(NameDescription, k)

PathHasBoth ==
    Contains(Lower(file_path), "tsundere") /\ Contains(Lower(file_path), "romance")

AriaScenario ==
    /\ char_name = JStr("Aria")
    /\ Get(char_data, "description", JNull) = JStr("a mystical guide")

\* C4: classification totality.  Whatever the name, the description and the
\* path hint, the classifier returns a tag, and the tag is a key of the
\* base_prompts registry.
ClassificationTotal ==
    pc = "classified" =>
        (result.t = "str" /\ result.v \in DOMAIN base_prompts.v)

\* a classification that went through the innermost multiplayer refinement
ClassifiedGroupModerator ==
    /\ pc = "classified"
    /\ result = JStr("group_moderator")
    /\ Contains(Lower(file_path), "moderator")

\* C5 as stated: every path hint containing both "tsundere" and "romance"
\* classifies as romance_tsundere, whatever else the path contains.
TsundereRomanceAlwaysRefined ==
    (pc = "classified" /\ PathHasBoth) => result = JStr("romance_tsundere")

\* C5 amended: a path hint containing both "tsundere" and "romance", and not
\* "aria_luna", classifies as romance_tsundere, never as tsundere, whatever
\* the name and the description contain.
TsundereRomanceRefined ==
    (pc = "classified" /\ PathHasBoth /\ ~Contains(Lower(file_path), "aria_luna"))
        => result = JStr("romance_tsundere")

\* the refinement applied to a mixed-case path while the text says tsundere
ClassifiedRomanceTsundere ==
    /\ pc = "classified"
    /\ PathHasBoth
    /\ Contains(file_path, "Romance_Tsundere")
    /\ Contains(NameDescription, "tsundere")
    /\ result = JStr("romance_tsundere")

\* the names and descriptions a second call with the same path hint is given
OtherTexts ==
    (Names \X {Profile(JStr("a mystical guide"), JMap([idle |-> animation_file]))})
    \cup ({JStr("Aria")}
            \X {Profile(d, JMap([idle |-> animation_file])) :
                  d \in {JStr("A Tsundere classmate"), JStr("shy helper"),
                         JStr("Multiplayer host")}})

\* C6: path rules take strict precedence.  When the lowercased path hint
\* matches a path rule, the archetype is the same for every name and
\* description classified with that path hint.
PathRulesDecideAlone ==
    (pc = "classified" /\ PathHasRule) =>
        \A other \in OtherTexts :
            determine_character_archetype(other[1], other[2], file_path)
                = result.v

\* a path rule that won over a text that matches a text rule of another tag
PathBeatText ==
    /\ pc = "classified"
    /\ PathHasRule
    /\ Contains(NameDescription, "tsundere")
    /\ result = JStr("easy")

\* C7: default fallback.  The classifier returns "default" exactly when no
\* path rule matches the lowercased path hint and no text rule matches the
\* lowercased "name description"; name "Aria" with description "a mystical
\* guide" is default on a path without a hint and aria_luna on a path
\* containing "aria_luna".
DefaultIffNoRule ==
    pc = "classified" =>
        /\ (result = JStr("default")) <=> (~PathHasRule /\ ~TextHasRule)
        /\ (AriaScenario /\ ~PathHasRule) => result = JStr("default")
        /\ (AriaScenario /\ Contains(Lower(file_path), "aria_luna"))
              => result = JStr("aria_luna")

\* the Aria profile classified on a path that carries no hint
AriaClassifiedDefault ==
    /\ pc = "classified"
    /\ AriaScenario
    /\ ~PathHasRule
    /\ result = JStr("default")

(***************************************************************************)
(* Animation merge: get_comprehensive_asset_config                         *)
(***************************************************************************)
\* the animation names of the profile the last synthesis was given
ProfileAnimations == DOMAIN Get(char_data, "animations", JMap(<<>>)).v

\* the animationMappings of the config the last synthesis returned
OutputMappings == result.v["animationMappings"].v

CoreNames == {"idle", "talking", "happy", "sad", "hungry", "eating"}

Synthesized == pc \in {"configured", "remerged"}

\* the archetype-conditional additions
ArchetypeAdditions(archetype) ==
    CASE archetype = "aria_luna"  -> {"magical", "sleeping"}
      [] archetype = "specialist" -> {"sleeping"}
      [] OTHER                    -> {}

IsDescriptor(x) ==
    /\ IsMap(x)
    /\ {"promptModifier", "stateDescription", "frameCount"} \subseteq DOMAIN x.v

\* C8: merge output superset.  The animationMappings of the synthesized
\* config holds a descriptor for every animation name of the profile, for
\* every core name and for every addition of the profile's archetype, also
\* when the profile's animations lack those names.
MergeOutputSuperset ==
    Synthesized =>
        /\ ProfileAnimations \subseteq DOMAIN OutputMappings
        /\ CoreNames \subseteq DOMAIN OutputMappings
        /\ ArchetypeAdditions(
               determine_character_archetype(char_name, char_data, file_path))
              \subseteq DOMAIN OutputMappings
        /\ \A anim \in DOMAIN OutputMappings : IsDescriptor(OutputMappings[anim])

\* a specialist profile without sleeping and without the core names
SpecialistGotSleeping ==
    /\ pc = "configured"
    /\ file_path = PathOf(<<"specialist">>)
    /\ ProfileAnimations = {"dance"}
    /\ "sleeping" \in DOMAIN OutputMappings

\* C9: merge idempotence.  For a fixed archetype, the merge run on the names
\* of its own output animationMappings returns an animationMappings equal
\* to that output.
MergeFixedPoint ==
    pc = "remerged" =>
        /\ ProfileAnimations = DOMAIN Get(before, "animations", JMap(<<>>)).v
               \cup CoreNames
               \cup ArchetypeAdditions(
                      determine_character_archetype(char_name, before, file_path))
        /\ result.v["animationMappings"] = char_data.v["animations"]

\* a second merge over an output holding an unknown name and the additions
RemergedAriaLuna ==
    /\ pc = "remerged"
    /\ {"dance", "magical", "sleeping", "idle"} \subseteq DOMAIN OutputMappings
    /\ "magical" \notin DOMAIN Get(before, "animations", JMap(<<>>)).v

\* C10: merge step 1.  Every animation name of the profile has a descriptor
\* in the output: the catalog's when the catalog has that exact name, else a
\* generic one with frameCount 6 and texts built from the name; and every
\* descriptor of the output has frameCount > 0 and non-empty promptModifier
\* and stateDescription.
ExistingAnimationsMapped ==
    pc = "configured" =>
        /\ \A anim \in ProfileAnimations :
              /\ anim \in DOMAIN OutputMappings
              /\ anim \in DOMAIN standard_mappings.v =>
                    OutputMappings[anim] = standard_mappings.v[anim]
              /\ anim \notin DOMAIN standard_mappings.v =>
                    /\ OutputMappings[anim].v["frameCount"] = JInt(6)
                    /\ OutputMappings[anim].v["promptModifier"] =
                          JStr("expressive pose and animation for " \o anim
                               \o " state, character showing " \o anim
                               \o " emotion or action")
                    /\ OutputMappings[anim].v["stateDescription"] =
                          JStr("Character in " \o anim \o " state")
        /\ \A anim \in DOMAIN OutputMappings :
              /\ OutputMappings[anim].v["frameCount"].t = "int"
              /\ OutputMappings[anim].v["frameCount"].v > 0
              /\ OutputMappings[anim].v["promptModifier"].t = "str"
              /\ Len(OutputMappings[anim].v["promptModifier"].v) > 0
              /\ OutputMappings[anim].v["stateDescription"].t = "str"
              /\ Len(OutputMappings[anim].v["stateDescription"].v) > 0

\* a profile with one catalog name and one name the catalog lacks
MappedKnownAndUnknown ==
    /\ pc = "configured"
    /\ ProfileAnimations = {"magical", "Idle"}
    /\ OutputMappings["Idle"].v["frameCount"] = JInt(6)
    /\ OutputMappings["magical"].v["frameCount"] = JInt(10)


(***************************************************************************)
(* The update of one profile file (SpecUpdate)                             *)
(***************************************************************************)
\* the animationMappings of a profile, the empty map when it holds none
MappingsOf(data) ==
    LET asset_gen == Get(data, "assetGeneration", JMap(<<>>))
        mappings == IF IsMap(asset_gen)
                    THEN Get(asset_gen, "animationMappings", JMap(<<>>))
                    ELSE JMap(<<>>)
    IN  IF IsMap(mappings) THEN mappings ELSE JMap(<<>>)

\* the animation names a profile defines
AnimationsOf(data) ==
    LET animations == Get(data, "animations", JMap(<<>>))
    IN  IF IsMap(animations) THEN DOMAIN animations.v ELSE {}

\* the names the update synthesizes a descriptor for
SynthesizedNames(data, path) ==
    AnimationsOf(data)
    \cup CoreNames
    \cup DOMAIN add_archetype_animations(
            determine_character_archetype(
                Get(data, "name", JStr(PathStem(path))), data, path),
            <<>>)

\* C11 as stated: every animation name that had a descriptor in the profile
\* before update_character_asset_generation ran still has a descriptor in
\* the profile's animationMappings after it.
UpdateKeepsEveryDescriptor ==
    pc = "updated" =>
        \A anim \in DOMAIN MappingsOf(before).v :
            anim \in DOMAIN MappingsOf(char_data).v

\* C11: the update never drops an animation the profile defines: every key
\* of the profile's animations has a descriptor in animationMappings after
\* the update, and a descriptor the prior assetGeneration held is kept (as a
\* name) exactly when its name is a key of animations, a core animation or
\* an addition of the archetype.
UpdateKeepsEveryAnimation ==
    pc = "updated" =>
        /\ \A anim \in AnimationsOf(before) :
              /\ anim \in DOMAIN MappingsOf(char_data).v
              /\ IsDescriptor(MappingsOf(char_data).v[anim])
        /\ \A anim \in DOMAIN MappingsOf(before).v :
              anim \in DOMAIN MappingsOf(char_data).v
                  <=> anim \in SynthesizedNames(before, file_path)

\* a profile with the descriptors "idle" and "blushing" and the animation
\* "dance" was updated: "dance" has a descriptor, "blushing" has none
UpdatedDroppedBlushing ==
    /\ pc = "updated"
    /\ AnimationsOf(before) = {"dance"}
    /\ "blushing" \in DOMAIN MappingsOf(before).v
    /\ "dance" \notin DOMAIN MappingsOf(before).v
    /\ "dance" \in DOMAIN MappingsOf(char_data).v
    /\ "blushing" \notin DOMAIN MappingsOf(char_data).v

\* C12: after a successful update the profile's assetGeneration is the
\* configuration synthesized from the rest of the profile, whatever the
\* prior assetGeneration was, and every other top-level key is unchanged.
UpdateOverwritesAssetGeneration ==
    pc = "updated" =>
        LET rest == JMap([k \in DOMAIN before.v \ {"assetGeneration"} |->
                            before.v[k]])
        IN  /\ char_data.v["assetGeneration"]
                 = get_comprehensive_asset_config(
                       Get(rest, "name", JStr(PathStem(file_path))),
                       rest, file_path)
            /\ DOMAIN char_data.v = DOMAIN before.v \cup {"assetGeneration"}
            /\ \A k \in DOMAIN before.v \ {"assetGeneration"} :
                  char_data.v[k] = before.v[k]
            /\ result = JList(<<JBool(TRUE), JNull>>)

\* a profile that held a hand-written assetGeneration was updated
UpdatedOverHandWritten ==
    /\ pc = "updated"
    /\ MappingsOf(before) /= JMap(<<>>)
    /\ Get(before.v["assetGeneration"], "basePrompt", JNull)
         = JStr("hand-written prompt")
    /\ char_data.v["assetGeneration"] /= before.v["assetGeneration"]
    /\ Has(before, "description")
    /\ Get(char_data, "description", JNull) = before.v["description"]


(***************************************************************************)
(* The validation of one profile file (SpecValidate)                       *)
(***************************************************************************)
Validated == pc = "validated"

\* C13: on every return path of validate_character_file (syntax failure,
\* load failure, full validation) valid is true exactly when the errors list
\* is empty; warnings do not make a profile invalid.
ValidIffNoErrors ==
    Validated => (result.valid <=> result.errors = <<>>)

\* a complete profile lacking only its personality was validated: a warning,
\* no error, valid
ValidatedWithWarningOnly ==
    /\ Validated
    /\ result.warnings /= <<>>
    /\ result.errors = <<>>
    /\ result.valid

\* the validation ran its stages on a parsed profile and returned
FullyValidated ==
    /\ Validated
    /\ ~Raised(char_data)
    /\ \A i \in DOMAIN result.errors :
          SubSeq(result.errors[i], 1, 14) /= "Failed to load"

\* how often the result lists the error
Count(message) ==
    Cardinality({i \in DOMAIN result.errors : result.errors[i] = message})

Reported(message) == Count(message) > 0

\* the subsystem block of the profile, when it is enabled
Enabled(key) ==
    /\ Has(char_data, key)
    /\ IsMap(char_data.v[key])
    /\ Truthy(Get(char_data.v[key], "enabled", JNull))

\* C14: no short-circuit.  Every violation present in a parsed profile is
\* reported in the one result: for an enabled dialogBackend or giftSystem,
\* each missing companion key has its own error, whatever else is missing.
EveryViolationReported ==
    FullyValidated =>
        /\ Enabled("dialogBackend") =>
              /\ ~Has(char_data.v["dialogBackend"], "backends")
                    => Reported("dialogBackend enabled but no backends configured")
              /\ ~Has(char_data.v["dialogBackend"], "defaultBackend")
                    => Reported("dialogBackend missing defaultBackend specification")
        /\ Enabled("giftSystem") =>
              /\ ~Has(char_data.v["giftSystem"], "preferences")
                    => Reported("giftSystem enabled but preferences not configured")
              /\ ~Has(char_data.v["giftSystem"], "inventorySettings")
                    => Reported("giftSystem enabled but inventorySettings not configured")

\* C15: validating a parsed profile yields a result whatever the shapes of
\* its values; no exception leaves validate_character_file and the loop of
\* main.
ValidationNeverAborts == pc /= "aborted"

BasePromptOf(data) ==
    LET asset_gen == Get(data, "assetGeneration", JNull)
    IN  IF IsMap(asset_gen) THEN Get(asset_gen, "basePrompt", JNull) ELSE JNull

LengthError ==
    "basePrompt should be at least 50 characters for quality generation"

TransparencyError ==
    "basePrompt should include 'transparent background' for proper asset generation"

\* C17: for a basePrompt that is a string, the length error is reported
\* exactly when it has fewer than 50 characters and the transparency error
\* exactly when it does not contain "transparent background" in any
\* capitalisation; "short" draws both, the 60-character prompt with the cue
\* draws neither.
BasePromptChecksIndependent ==
    (FullyValidated /\ BasePromptOf(char_data).t = "str") =>
        LET prompt == BasePromptOf(char_data).v
        IN  /\ Reported(LengthError) <=> Len(prompt) < 50
            /\ Reported(TransparencyError)
                  <=> ~Contains(Lower(prompt), "transparent background")
            /\ prompt = "short"
                  => Reported(LengthError) /\ Reported(TransparencyError)
            /\ prompt = Prompt60
                  => ~Reported(LengthError) /\ ~Reported(TransparencyError)

\* the 22-character prompt "Transparent Background" was validated: the
\* length error alone
ValidatedCueOnlyPrompt ==
    /\ FullyValidated
    /\ BasePromptOf(char_data) = JStr("Transparent Background")
    /\ Reported(LengthError)
    /\ ~Reported(TransparencyError)

\* C18: an assetGeneration for which validate_asset_generation reports no
\* error has every required animation name as a key of animationMappings,
\* each with a non-empty promptModifier and a non-empty stateDescription.
CleanMappingsAreNonEmpty ==
    (FullyValidated /\ validate_asset_generation(char_data) = Errors(<<>>)) =>
        \A i \in DOMAIN required_anims :
            /\ required_anims[i] \in DOMAIN MappingsOf(char_data).v
            /\ LET mapping == MappingsOf(char_data).v[required_anims[i]]
               IN  /\ Get(mapping, "promptModifier", JStr("")) /= JStr("")
                   /\ Get(mapping, "stateDescription", JStr("")) /= JStr("")

\* the generationSettings of the profile, JNull when it holds none
SettingsOf(data) ==
    LET asset_gen == Get(data, "assetGeneration", JNull)
    IN  IF IsMap(asset_gen) THEN Get(asset_gen, "generationSettings", JNull)
        ELSE JNull

\* C19: a generationSettings that draws no error has a model among flux1d,
\* flux1s, sdxl, an artStyle among anime, pixel_art, realistic, cartoon,
\* chibi, and the resolution 128 by 128; an absent one is an error too.
CleanSettingsAreComplete ==
    (/\ FullyValidated
     /\ IsMap(SettingsOf(char_data))
     /\ generation_settings_errors(SettingsOf(char_data)) = Errors(<<>>)) =>
        /\ Get(SettingsOf(char_data), "model", JNull)
              \in {JStr("flux1d"), JStr("flux1s"), JStr("sdxl")}
        /\ Get(SettingsOf(char_data), "artStyle", JNull)
              \in {JStr("anime"), JStr("pixel_art"), JStr("realistic"),
                   JStr("cartoon"), JStr("chibi")}
        /\ Get(SettingsOf(char_data), "resolution", JNull)
              = JMap([width |-> JInt(128), height |-> JInt(128)])

DialogBackendErrors ==
    {"dialogBackend enabled but no backends configured",
     "dialogBackend missing defaultBackend specification",
     "dialogBackend defaultBackend not found in backends configuration"}

\* C20: an enabled dialogBackend draws no dialogBackend error exactly when
\* backends is present, defaultBackend is present and defaultBackend is a
\* key of backends; backends {markov_chain} with defaultBackend "llm" draws
\* the not-found error; a dialogBackend that is absent or not enabled draws
\* no dialogBackend error.
DialogBackendConsistent ==
    FullyValidated =>
        LET backend == Get(char_data, "dialogBackend", JMap(<<>>))
            clean == \A message \in DialogBackendErrors : ~Reported(message)
        IN  /\ Enabled("dialogBackend") =>
                  (clean <=> /\ Has(backend, "backends")
                             /\ Has(backend, "defaultBackend")
                             /\ backend.v["defaultBackend"].t = "str"
                             /\ backend.v["defaultBackend"].v
                                   \in DOMAIN backend.v["backends"].v)
            /\ (/\ Enabled("dialogBackend")
                /\ Has(backend, "backends")
                /\ DOMAIN backend.v["backends"].v = {"markov_chain"}
                /\ Get(backend, "defaultBackend", JNull) = JStr("llm"))
                  => Reported("dialogBackend defaultBackend not found in backends configuration")
            /\ ~Enabled("dialogBackend") => clean

\* a profile with backends {markov_chain} and defaultBackend "llm" was
\* validated and drew the not-found error
ValidatedUnknownDefaultBackend ==
    /\ FullyValidated
    /\ Enabled("dialogBackend")
    /\ Get(char_data.v["dialogBackend"], "defaultBackend", JNull) = JStr("llm")
    /\ Has(char_data.v["dialogBackend"], "backends")
    /\ Count("dialogBackend defaultBackend not found in backends configuration") = 1

\* subsystem, companion field, error text
Companions ==
    {<<"giftSystem", "preferences",
       "giftSystem enabled but preferences not configured">>,
     <<"giftSystem", "inventorySettings",
       "giftSystem enabled but inventorySettings not configured">>,
     <<"multiplayer", "networkID",
       "multiplayer enabled but missing networkID">>,
     <<"multiplayer", "networkPersonality",
       "multiplayer enabled but missing networkPersonality">>,
     <<"battleSystem", "battleStats",
       "battleSystem enabled but battleStats not configured">>,
     <<"battleSystem", "availableActions",
       "battleSystem enabled but availableActions not configured">>}

\* C21: validate_feature_consistency emits one error for each companion
\* field missing from an enabled giftSystem, multiplayer or battleSystem,
\* and none of these errors for a subsystem that is absent or whose enabled
\* flag is falsy.
CompanionErrorsExact ==
    FullyValidated =>
        \A c \in Companions :
            Count(c[3]) = IF Enabled(c[1]) /\ ~Has(char_data.v[c[1]], c[2])
                          THEN 1 ELSE 0

\* validated: an enabled multiplayer with networkID and without
\* networkPersonality drew the one error, a giftSystem that is not enabled
\* and has no companion drew none
ValidatedOneCompanionMissing ==
    /\ FullyValidated
    /\ Enabled("multiplayer")
    /\ Has(char_data.v["multiplayer"], "networkID")
    /\ Count("multiplayer enabled but missing networkPersonality") = 1
    /\ Count("multiplayer enabled but missing networkID") = 0
    /\ Has(char_data, "giftSystem")
    /\ ~Enabled("giftSystem")
    /\ ~Has(char_data.v["giftSystem"], "preferences")
    /\ Count("giftSystem enabled but preferences not configured") = 0

StatsOf(data) ==
    IF Has(data, "stats") /\ IsMap(data.v["stats"]) THEN data.v["stats"]
    ELSE JMap(<<>>)

InitialError(stat_name) ==
    "Stat " \o stat_name \o ": initial value exceeds maximum"

ThresholdError(stat_name) ==
    "Stat " \o stat_name \o ": criticalThreshold should be less than maximum"

\* C22: for every stat that is a mapping, the initial-exceeds-maximum error
\* is emitted exactly when initial and max are both present and initial >
\* max, and the criticalThreshold error exactly when criticalThreshold and
\* max are both present and criticalThreshold >= max; hp = {initial: 120,
\* max: 100} draws the initial error for hp, initial = max draws none.
StatsComparedExactly ==
    FullyValidated =>
        \A stat_name \in DOMAIN StatsOf(char_data).v :
            LET stat_config == StatsOf(char_data).v[stat_name]
                number(key) == NumberOf(stat_config.v[key])
            IN  IsMap(stat_config) =>
                  /\ Count(InitialError(stat_name))
                        = IF /\ Has(stat_config, "initial")
                             /\ Has(stat_config, "max")
                             /\ number("initial") > number("max")
                          THEN 1 ELSE 0
                  /\ Count(ThresholdError(stat_name))
                        = IF /\ Has(stat_config, "criticalThreshold")
                             /\ Has(stat_config, "max")
                             /\ number("criticalThreshold") >= number("max")
                          THEN 1 ELSE 0
                  /\ (stat_name = "hp"
                        /\ stat_config = JMap([initial |-> JInt(120),
                                               max |-> JInt(100)]))
                        => Reported("Stat hp: initial value exceeds maximum")
                  /\ (Has(stat_config, "initial") /\ Has(stat_config, "max")
                        /\ number("initial") = number("max"))
                        => ~Reported(InitialError(stat_name))

\* validated: hp = {initial: 120, max: 100} drew its one error
ValidatedHpOverMaximum ==
    /\ FullyValidated
    /\ Get(StatsOf(char_data), "hp", JNull)
          = JMap([initial |-> JInt(120), max |-> JInt(100)])
    /\ Count("Stat hp: initial value exceeds maximum") = 1
    /\ result.valid = FALSE

\* how often the result lists the warning
Warned(message) ==
    Cardinality({i \in DOMAIN result.warnings : result.warnings[i] = message})

\* the animation has a descriptor in assetGeneration.animationMappings
Mapped(data, anim_name) ==
    /\ Truthy(Get(data, "assetGeneration", JMap(<<>>)))
    /\ anim_name \in DOMAIN MappingsOf(data).v

DescriptionWarning ==
    "Character description should be more descriptive (at least 10 characters)"

PersonalityWarning == "Character missing personality configuration"

NotFoundWarning(anim_name, anim_path) ==
    "Animation file not found: " \o anim_path \o " (for " \o anim_name \o ")"

FormatWarning(anim_path) ==
    "Animation file should be GIF format: " \o anim_path

\* C23: a missing or non-GIF animation file is reported as a warning only,
\* never as an error, and not at all for an animation that is a key of
\* assetGeneration.animationMappings; a description shorter than 10
\* characters and a missing or empty personality add warnings only; none of
\* these findings is among the errors, which alone decide validity.
FileFindingsAreWarnings ==
    FullyValidated =>
        /\ \A anim_name \in AnimationsOf(char_data) :
              LET anim_path == char_data.v["animations"].v[anim_name].v
                  full_path == FullPath(PathParent(file_path), anim_path)
              IN  /\ Count(NotFoundWarning(anim_name, anim_path)) = 0
                  /\ Count(FormatWarning(anim_path)) = 0
                  /\ Warned(NotFoundWarning(anim_name, anim_path))
                        = IF ~Mapped(char_data, anim_name)
                                /\ full_path \notin asset_files
                          THEN 1 ELSE 0
                  /\ Warned(FormatWarning(anim_path))
                        = IF /\ ~Mapped(char_data, anim_name)
                             /\ full_path \in asset_files
                             /\ PathSuffix(full_path) /= ".gif"
                          THEN 1 ELSE 0
        /\ Count(DescriptionWarning) = 0
        /\ Warned(DescriptionWarning)
              = IF PyLen(Get(char_data, "description", JStr(""))) < 10
                THEN 1 ELSE 0
        /\ Count(PersonalityWarning) = 0
        /\ Warned(PersonalityWarning)
              = IF ~Truthy(Get(char_data, "personality", JNull)) THEN 1 ELSE 0
        /\ (result.valid <=> result.errors = <<>>)

\* validated without the files on disk: the one animation without a
\* descriptor drew the only warning, the mapped ones none, and the profile
\* is valid
ValidatedMissingFileWarned ==
    /\ FullyValidated
    /\ asset_files = {}
    /\ Mapped(char_data, "idle")
    /\ ~Mapped(char_data, "hungry")
    /\ result.warnings
          = <<NotFoundWarning("hungry", "animations/hungry.gif")>>
    /\ result.errors = <<>>
    /\ result.valid

CheckedSubsystems == {"dialogBackend", "giftSystem", "multiplayer", "battleSystem"}

SubsystemErrors == DialogBackendErrors \cup {c[3] : c \in Companions}

\* C25: for a profile lacking dialogBackend, giftSystem, multiplayer and
\* battleSystem, the stubs injected by add_missing_features_to_character
\* are enabled and draw no error of validate_feature_consistency for any of
\* the four, and the default dialogBackend.defaultBackend is a key of the
\* default dialogBackend.backends.
StubsAreConsistent ==
    (pc = "completed" /\ \A key \in CheckedSubsystems : ~Has(before, key)) =>
        LET outcome == validate_feature_consistency(char_data)
            backend == char_data.v["dialogBackend"]
        IN  /\ \A key \in CheckedSubsystems :
                  /\ Has(char_data, key)
                  /\ IsMap(char_data.v[key])
                  /\ Truthy(Get(char_data.v[key], "enabled", JNull))
            /\ ~Raised(outcome)
            /\ \A i \in DOMAIN outcome.v : outcome.v[i] \notin SubsystemErrors
            /\ backend.v["defaultBackend"].t = "str"
            /\ backend.v["defaultBackend"].v \in DOMAIN backend.v["backends"].v

\* a profile with none of the four subsystems was completed
CompletedAllFourStubs ==
    /\ pc = "completed"
    /\ \A key \in CheckedSubsystems : ~Has(before, key)
    /\ char_data.v["dialogBackend"] = default_dialogBackend
    /\ char_data.v["giftSystem"] = default_giftSystem
    /\ char_data.v["multiplayer"] = default_multiplayer(char_name)
    /\ char_data.v["battleSystem"] = default_battleSystem
    /\ validate_feature_consistency(char_data) = Errors(<<>>)

(***************************************************************************)
(* The audit of a corpus (SpecAudit)                                       *)
(***************************************************************************)
Features == {ALL_FEATURES[i] : i \in DOMAIN ALL_FEATURES}

\* the profile holds the feature key with a truthy value
Configured(n, f) ==
    Has(characters.v[n], f) /\ Truthy(characters.v[n].v[f])

\* the features the coverage result lists as missing for the character
ListedMissing(n) ==
    LET missing == Get(result.v["missing_features"], n, JList(<<>>)).v
    IN  {missing[i].v : i \in DOMAIN missing}

\* C26: for every corpus and every feature of the audit vocabulary,
\* analyze_feature_coverage reports count = the number of profiles holding
\* the key with a truthy value, and total = the size of the corpus; each
\* character's missing list is exactly the features it lacks in that sense,
\* so count + (characters listing the feature) = total and 0 <= count <=
\* total; the empty corpus gives percentage 0; the corpus is not mutated.
CoverageCountsExact ==
    pc = "covered" =>
        LET names == DOMAIN characters.v
            stats(f) == result.v["feature_stats"].v[f].v
        IN  /\ \A f \in Features :
                  /\ stats(f)["count"]
                        = JInt(Cardinality({n \in names : Configured(n, f)}))
                  /\ stats(f)["total"] = JInt(Cardinality(names))
                  /\ stats(f)["count"].v
                        + Cardinality({n \in names : f \in ListedMissing(n)})
                        = stats(f)["total"].v
                  /\ 0 <= stats(f)["count"].v
                  /\ stats(f)["count"].v <= stats(f)["total"].v
                  /\ names = {} => stats(f)["percentage"] = JInt(0)
            /\ \A n \in names :
                  /\ ListedMissing(n) = {f \in Features : ~Configured(n, f)}
                  /\ Len(Get(result.v["missing_features"], n, JList(<<>>)).v)
                        = Cardinality(ListedMissing(n))
            /\ result.v["total_characters"] = JInt(Cardinality(names))
            /\ characters = before

\* a corpus of two was covered: stats is present but empty in one profile
\* and counted in none, assetGeneration is counted once
CoveredFalsyFeature ==
    /\ pc = "covered"
    /\ Cardinality(DOMAIN characters.v) = 2
    /\ \E n \in DOMAIN characters.v :
          /\ Has(characters.v[n], "stats")
          /\ "stats" \in ListedMissing(n)
    /\ result.v["feature_stats"].v["stats"].v["count"] = JInt(0)
    /\ result.v["feature_stats"].v["assetGeneration"].v["count"] = JInt(1)
    /\ result.v["feature_stats"].v["assetGeneration"].v["percentage"]
          = JFloat("50.0")

\* the required fields the asset analysis lists as missing for the character
ListedIncomplete(n) ==
    LET incomplete == result.v["incomplete_configurations"].v
    IN  UNION {{incomplete[i].v["missing_fields"].v[j].v :
                    j \in DOMAIN incomplete[i].v["missing_fields"].v} :
                 i \in {k \in DOMAIN incomplete :
                          incomplete[k].v["character"] = JStr(n)}}

\* the validator reports the error for the profile
ValidatorReports(data, message) ==
    LET outcome == validate_asset_generation(data)
    IN  ~Raised(outcome) /\ \E i \in DOMAIN outcome.v : outcome.v[i] = message

Listed(list, n) ==
    Cardinality({i \in DOMAIN result.v[list].v : result.v[list].v[i] = JStr(n)})

\* C27: for every profile of the corpus, analyze_asset_generation lists the
\* profile in incomplete_configurations with missing field f exactly when
\* validate_asset_generation reports "assetGeneration missing required
\* field: f" (f one of basePrompt, animationMappings, generationSettings),
\* the profile whose assetGeneration is an empty mapping included; and every
\* character is in exactly one of has_asset_generation and
\* missing_asset_generation.
AuditAgreesWithValidator ==
    pc = "audited" =>
        \A n \in DOMAIN characters.v :
            /\ \A i \in DOMAIN asset_generation_fields :
                  LET f == asset_generation_fields[i]
                  IN  f \in ListedIncomplete(n)
                        <=> ValidatorReports(characters.v[n],
                                "assetGeneration missing required field: " \o f)
            /\ Listed("has_asset_generation", n)
                  + Listed("missing_asset_generation", n) = 1

(***************************************************************************)
(* The synthesized configuration under the validator (SpecUpdate)          *)
(***************************************************************************)
\* the base prompt of every archetype of the registry passes the two checks
\* of the validator
EveryBasePromptValidates ==
    \A archetype \in DOMAIN base_prompts.v :
        base_prompt_errors(base_prompts.v[archetype]) = Errors(<<>>)

\* C28: for every profile whose animations is a mapping and every path
\* hint, the configuration of get_comprehensive_asset_config, stored as
\* assetGeneration, draws no error from validate_asset_generation; the
\* basePrompt of every archetype has at least 50 characters and the cue
\* "transparent background".
SynthesizedConfigValidates ==
    /\ EveryBasePromptValidates
    /\ pc = "updated" => validate_asset_generation(char_data) = Errors(<<>>)

\* the profile in the specialist directory, without a core animation of its
\* own, was updated and its assetGeneration draws no error
UpdatedSpecialistValidates ==
    /\ pc = "updated"
    /\ calls = 1
    /\ file_path = PathOf(<<"specialist">>)
    /\ AnimationsOf(before) = {"dance", ""}
    /\ "sleeping" \in DOMAIN MappingsOf(char_data).v
    /\ validate_asset_generation(char_data) = Errors(<<>>)

(***************************************************************************)
(* Completion and update in either order (SpecUpdate)                      *)
(***************************************************************************)
\* the profile the file holds after process_character_file: an exception
\* leaves the file as it was
Completed(name, data) ==
    IF Raised(add_missing_features_to_character(name, data)) THEN data
    ELSE add_missing_features_to_character(name, data)

\* the profile the file holds after update_character_asset_generation
Updated(data, path) ==
    IF Raised(update_character_asset_generation(data, path)) THEN data
    ELSE update_character_asset_generation(data, path)

\* the second tool runs on what the first one left of the profile `before`
SecondOfTwo == calls = 1 /\ calls' = 2 /\ IsMap(Get(before, "animations", JNull))

\* C29: for every profile with mapping-valued animations, completion
\* followed by the update overwrite leaves the same profile as the overwrite
\* followed by completion; in both orders the final assetGeneration is the
\* synthesized configuration.
CompletionCommutesWithUpdate ==
    [][/\ (SecondOfTwo /\ pc = "updated" /\ pc' /= "updated") =>
             /\ char_data' = Updated(Completed(char_name, before), file_path)
             /\ char_data'.v["assetGeneration"]
                   = Updated(before, file_path).v["assetGeneration"]
       /\ (SecondOfTwo /\ pc = "completed" /\ pc' = "updated") =>
             /\ char_data' = Completed(char_name, Updated(before, file_path))
             /\ char_data'.v["assetGeneration"]
                   = Updated(before, file_path).v["assetGeneration"]]_vars

(***************************************************************************)
(* The stub and the battle system (SpecComplete)                           *)
(***************************************************************************)
BattleNames == {"attack", "defend", "heal"}

\* battleSystem.enabled of the profile is truthy
BattleEnabled(data) ==
    /\ Has(data, "battleSystem")
    /\ IsMap(data.v["battleSystem"])
    /\ Truthy(Get(data.v["battleSystem"], "enabled", JBool(FALSE)))

\* C30: add_missing_features_to_character builds the assetGeneration stub
\* before it injects the battleSystem default: the stub's animationMappings
\* holds attack, defend and heal exactly when the input profile had
\* battleSystem.enabled truthy, and a profile lacking both assetGeneration
\* and battleSystem ends with battleSystem.enabled = true and an
\* animationMappings without attack, defend and heal.
StubBuiltBeforeBattleDefault ==
    (pc = "completed" /\ ~Has(before, "assetGeneration")) =>
        LET names == DOMAIN MappingsOf(char_data).v
        IN  /\ BattleEnabled(before) => BattleNames \subseteq names
            /\ ~BattleEnabled(before) => BattleNames \cap names = {}
            /\ ~Has(before, "battleSystem") =>
                  /\ char_data.v["battleSystem"].v["enabled"] = JBool(TRUE)
                  /\ BattleNames \cap names = {}

\* a profile lacking assetGeneration and battleSystem was completed: the
\* battle system is enabled and the stub has no battle animation
CompletedWithoutBattleAnimations ==
    /\ pc = "completed"
    /\ ~Has(before, "assetGeneration")
    /\ ~Has(before, "battleSystem")
    /\ BattleEnabled(char_data)
    /\ "idle" \in DOMAIN MappingsOf(char_data).v
    /\ BattleNames \cap DOMAIN MappingsOf(char_data).v = {}
====
